---- MODULE Spec2Model ----
(***************************************************************************)
(* A model of the agent runtime of the Chimera agents package:             *)
(*   - the circuit breaker, the retry decorator, the backoff strategies    *)
(*     and the timeout wrappers of resilience.py,                          *)
(*   - the subscriber callback of messaging/subscriber.py and the          *)
(*     dispatch, publishing and correlation registry of                    *)
(*     messaging/base_agent.py,                                            *)
(*   - the agents' error handlers, and the connection pool of              *)
(*     messaging/connection.py,                                            *)
(*   - the session context of query/context_manager.py,                    *)
(*   - the alert engine, the notification dispatcher and the rule          *)
(*     configuration of the monitoring agent,                              *)
(*   - the correlation id of logging.py, a consumer with prefetch 1 whose  *)
(*     agent handles in place or schedules its handler, and the session    *)
(*     context under several writers.                                      *)
(* Each part has a specification of its own (SpecCB, SpecCBFair and        *)
(* SpecConc, SpecRetry, SpecBackoff, SpecTimeout, SpecSub, SpecCorr,       *)
(* SpecReg and SpecRequest, SpecPublish, SpecChain and SpecAgents,         *)
(* SpecConnect, SpecPool and SpecShutdown, SpecHistory, SpecExtract and    *)
(* SpecStore, SpecAlerts, SpecNotify and SpecRuleConfig, SpecLogging,      *)
(* SpecConsumer); a specification leaves the variables of the other parts  *)
(* unchanged.                                                              *)
(***************************************************************************)
EXTENDS Integers, Sequences, FiniteSets, TLC

VARIABLES
    now,          \* the wall clock, in seconds (datetime.now(), time.time())
    cbcfg,        \* CircuitBreaker: failure_threshold, recovery_timeout
    cb,           \* CircuitBreaker: _state, _failure_count, _last_failure_time, _success_count
    cblast,       \* history: the last operation on the breaker and what it did
    opened_at,    \* history: the time the breaker last became OPEN, and resets since
    rt,           \* retry: one invocation of a retry-wrapped callable
    callers,      \* concurrent callers of one breaker: where each is in call()
    regops,       \* the threads inside clear_correlation and
                  \* cleanup_old_correlations, between their steps
    pool,         \* ConnectionPool: its settings and _connection
    conns,        \* the broker connections opened so far, and whether each is open
    connecting,   \* the callers of ConnectionPool.connect: where each is in it
    subscriber,   \* EventSubscriber: its channel, and where it declared and consumes
    bk,           \* retry: the configuration the decorator built and the delays slept
    session,      \* ContextManager: the stored context of one session and its TTL
    tmo,          \* withTimeout / withTimeoutAsync: one call, its inputs and outcome
    alert_engine, \* AlertEngine: rules, alert_history, last_alert_time
    notifier,     \* NotificationDispatcher: channels, and the last send_alert
    redis_rules,  \* the rules MonitoringStateManager saved in Redis
    rule_config,  \* history: the last rule-configuration message handled
    logging,      \* logging.py: correlation_id_var of every context, and the
                  \* last record emitted
    consumer,     \* a consumer with prefetch 1: its deliveries and their handler work
    kv,           \* the context of one session in Redis, and the writers at work on it
    batch,        \* history: the breaker and the time when the calls now
                  \* overlapping began, and the outcomes of those that ended
    tracing_available,  \* base_agent.TRACING_AVAILABLE, fixed at import
    consuming,          \* EventSubscriber._consuming
    correlation_map,    \* BaseAgent._correlation_map: correlation id -> entry
    next_uuid,          \* the next value of uuid.uuid4()
    next_tag,           \* the delivery tag of the next delivery
    channel_log,        \* the basic_ack and basic_nack calls on the channel, in order
    handled_messages,   \* the invocations of route_message, in order
    published,          \* the messages handed to publisher.publish that were sent
    deliveries,         \* history: the deliveries received and how handling ended
    issued,             \* history: correlation id -> the arguments of the
                        \* publish_request call that returned it
    msglast,            \* history: the last operation on the agent
    proto_available,    \* PROTO_AVAILABLE of the agent modules, fixed at import
    failures            \* history: the handler failures and what they published

cbvars == <<cbcfg, cb, cblast, opened_at>>
msgvars == <<tracing_available, consuming, correlation_map, next_uuid, next_tag,
             channel_log, handled_messages, published, deliveries, issued, msglast,
             proto_available, failures>>
concvars == <<callers, batch>>
regvars == <<regops>>
connvars == <<pool, conns, connecting, subscriber>>
monvars == <<alert_engine, notifier, redis_rules, rule_config>>
obsvars == <<logging, consumer, kv>>
libvars == <<tmo, bk, session, monvars, obsvars>>
vars == <<now, cbvars, rt, libvars, concvars, regvars, connvars, msgvars>>

(***************************************************************************)
(* Bounds of the model.                                                    *)
(***************************************************************************)
MaxTime == 3            \* the clock runs from 0 to MaxTime
MaxThreshold == 2       \* failure_threshold is drawn from 1..MaxThreshold
MaxTimeout == 2         \* recovery_timeout is drawn from 0..MaxTimeout
MaxDuration == 1        \* a wrapped call takes 0..MaxDuration seconds
MaxFailureCount == 3    \* cap on _failure_count (it grows without bound in the code)
MaxAttempts == 4        \* max_attempts is drawn from 1..MaxAttempts
MaxRequests == 2        \* at most MaxRequests calls of publish_request
MaxDeliveries == 2      \* at most MaxDeliveries deliveries
MaxResponses == 1       \* at most MaxResponses deliveries beside the registry
MaxClock == 1           \* beside the registry the clock runs from 0 to MaxClock
MaxAge == 1             \* max_age_seconds is drawn from 0..MaxAge
MaxFailures == 2        \* at most MaxFailures handler failures
MaxCallers == 2         \* the callers that share one breaker are 1..MaxCallers
MaxRetries == 3         \* ConnectionPool.max_retries ranges over 0..MaxRetries
MaxInitialDelay == 2    \* initial_retry_delay ranges over 1..MaxInitialDelay
MaxRetryDelay == 3      \* max_retry_delay ranges over 1..MaxRetryDelay
MaxConnections == 3     \* at most MaxConnections connections are ever opened
MaxConnCallers == 2     \* the callers of connect() are 1..MaxConnCallers
MaxBudget == 4          \* timeout budgets are 1..MaxBudget half seconds
MaxRunTime == 5         \* the wrapped callable runs 0..MaxRunTime half seconds
MaxPublished == 3       \* publish_response is called while fewer messages were sent
SessionTTL == 2         \* ContextManager.ttl, in ticks of the session clock
MaxAppended == 12       \* at most MaxAppended queries are added to the history
MaxExtractQueries == 4  \* the histories context is extracted from have at most this many queries
MaxBase == 2            \* base_delay is 1..MaxBase times four delay units
MaxCap == 3             \* max_delay is 1..MaxCap times four delay units
MaxBackoffAttempts == 3 \* max_attempts of the decorated function is 1..MaxBackoffAttempts
RuleThreshold == 2      \* the threshold of the rules, in units of 0.005
RuleCooldown == 2       \* the cooldown_seconds of the rules
MaxEvaluations == 3     \* at most MaxEvaluations calls of evaluate
MaxChannels == 3        \* send_alert is called with at most MaxChannels channel ids
MaxContexts == 2        \* the threads or tasks that log are 1..MaxContexts
MaxIds == 2             \* the correlation ids set are 1..MaxIds
MaxHandlers == 3        \* at most MaxHandlers handlers run one after the other in a context
MaxQueued == 4          \* the queue holds MaxQueued deliveries of one routing key
MaxWriters == 2         \* the writers of one session are 1..MaxWriters
MaxEntries == 3         \* at most MaxEntries queries are added by the writers

(***************************************************************************)
(* resilience.py: CircuitBreaker                                           *)
(***************************************************************************)
CLOSED == "closed"
OPEN == "open"
HALF_OPEN == "half_open"
CircuitState == {CLOSED, OPEN, HALF_OPEN}

\* _last_failure_time = None
NoTime == -1

\* CircuitBreaker.__init__: the fields after construction
NewBreaker ==
    [state |-> CLOSED, failure_count |-> 0,
     last_failure_time |-> NoTime, success_count |-> 0]

\* A plausible bug: the recovery timeout is not consulted.
ShouldAttemptResetNoTimeout(b, t) ==
    b.state = OPEN /\ b.last_failure_time # NoTime

\* A plausible bug: strictly more than the recovery timeout must have passed.
ShouldAttemptResetStrict(b, t) ==
    /\ b.state = OPEN
    /\ b.last_failure_time # NoTime
    /\ t - b.last_failure_time > cbcfg.recovery_timeout

\* CircuitBreaker._should_attempt_reset, read at time t
ShouldAttemptReset(b, t) ==
    IF b.state # OPEN THEN FALSE
    ELSE IF b.last_failure_time = NoTime THEN FALSE
    ELSE t - b.last_failure_time >= cbcfg.recovery_timeout

\* CircuitBreaker.call, its first statement: the breaker as the wrapped
\* function (or the rejection) finds it.
EnterCall(b, t) ==
    IF ShouldAttemptReset(b, t)
    THEN [b EXCEPT !.state = HALF_OPEN, !.success_count = 0]
    ELSE b

\* A plausible bug: one success closes the circuit.
OnSuccessOne(b) ==
    IF b.state = HALF_OPEN
    THEN LET c == b.success_count + 1 IN
         IF c >= 1
         THEN [b EXCEPT !.success_count = c, !.state = CLOSED, !.failure_count = 0]
         ELSE [b EXCEPT !.success_count = c]
    ELSE [b EXCEPT !.failure_count = 0]

\* A plausible bug: three successes are needed to close the circuit.
OnSuccessThree(b) ==
    IF b.state = HALF_OPEN
    THEN LET c == b.success_count + 1 IN
         IF c >= 3
         THEN [b EXCEPT !.success_count = c, !.state = CLOSED, !.failure_count = 0]
         ELSE [b EXCEPT !.success_count = c]
    ELSE [b EXCEPT !.failure_count = 0]

\* CircuitBreaker._on_success
OnSuccess(b) ==
    IF b.state = HALF_OPEN
    THEN LET c == b.success_count + 1 IN
         IF c >= 2
         THEN [b EXCEPT !.success_count = c, !.state = CLOSED, !.failure_count = 0]
         ELSE [b EXCEPT !.success_count = c]
    ELSE [b EXCEPT !.failure_count = 0]

\* A plausible bug: the circuit opens one failure late.
OnFailureLate(b, t) ==
    LET c == b.failure_count + 1 IN
    IF b.state = HALF_OPEN
    THEN [b EXCEPT !.failure_count = c, !.last_failure_time = t, !.state = OPEN]
    ELSE IF c > cbcfg.failure_threshold
    THEN [b EXCEPT !.failure_count = c, !.last_failure_time = t, !.state = OPEN]
    ELSE [b EXCEPT !.failure_count = c, !.last_failure_time = t]

\* CircuitBreaker._on_failure, at time t
OnFailure(b, t) ==
    LET c == b.failure_count + 1 IN
    IF b.state = HALF_OPEN
    THEN [b EXCEPT !.failure_count = c, !.last_failure_time = t, !.state = OPEN]
    ELSE IF c >= cbcfg.failure_threshold
    THEN [b EXCEPT !.failure_count = c, !.last_failure_time = t, !.state = OPEN]
    ELSE [b EXCEPT !.failure_count = c, !.last_failure_time = t]

\* A plausible bug: every exception of the wrapped function is a failure.
OnUnexpectedCounted(b, t) == OnFailure(b, t)

\* CircuitBreaker.call when the wrapped function raises an exception that
\* the except clause does not match: neither _on_success nor _on_failure
\* runs, and the exception propagates.
OnUnexpected(b, t) == b

\* What the wrapped function does: it returns, raises expected_exception,
\* or raises an exception that is no instance of expected_exception.
CallOutcomes == {"success", "failure", "other"}

\* The history of an operation: the breaker before it (pre), the breaker as
\* the wrapped function found it (probe), whether the function was invoked,
\* how the operation ended, when it began (at) and when it ended (end), and
\* the last opening of the breaker as known when the operation began.
NoOp ==
    [op |-> "none", pre |-> NewBreaker, probe |-> NewBreaker,
     invoked |-> FALSE, outcome |-> "none", at |-> 0, end |-> 0,
     opened |-> [t |-> NoTime, reset |-> FALSE]]

\* The history of the breaker's openings: after a step that takes the
\* breaker into OPEN, the time of that step and no reset since.
OpenedAfter(b0, b1, t) ==
    IF b1.state = OPEN /\ (b0.state # OPEN \/ b1.last_failure_time # b0.last_failure_time)
    THEN [t |-> t, reset |-> FALSE]
    ELSE opened_at

\* CircuitBreaker.call on a function that runs for d seconds and ends in
\* `outcome`: rejected (DataSourceError) when the breaker is OPEN after the
\* reset check, else the function runs and its outcome is recorded.
CBCall(outcome, d) ==
    LET b1 == EnterCall(cb, now) IN
    IF b1.state = OPEN
    THEN /\ cb' = b1
         /\ cblast' = [op |-> "call", pre |-> cb, probe |-> b1, invoked |-> FALSE,
                       outcome |-> "rejected", at |-> now, end |-> now,
                       opened |-> opened_at]
         /\ UNCHANGED <<now, opened_at>>
    ELSE /\ now + d <= MaxTime
         /\ outcome = "failure" => cb.failure_count < MaxFailureCount
         /\ LET b2 == CASE outcome = "success" -> OnSuccess(b1)
                        [] outcome = "failure" -> OnFailure(b1, now + d)
                        [] OTHER -> OnUnexpected(b1, now + d)
            IN /\ cb' = b2
               /\ opened_at' = OpenedAfter(b1, b2, now + d)
         /\ now' = now + d
         /\ cblast' = [op |-> "call", pre |-> cb, probe |-> b1, invoked |-> TRUE,
                       outcome |-> outcome, at |-> now, end |-> now + d,
                       opened |-> opened_at]

\* A plausible bug: reset clears the counters and leaves the state.
CBResetCounters ==
    /\ cb' = [cb EXCEPT !.failure_count = 0, !.success_count = 0]
    /\ cblast' = [op |-> "reset", pre |-> cb, probe |-> cb, invoked |-> FALSE,
                  outcome |-> "reset", at |-> now, end |-> now,
                  opened |-> opened_at]
    /\ opened_at' = [opened_at EXCEPT !.reset = TRUE]
    /\ UNCHANGED now

\* CircuitBreaker.reset
CBReset ==
    /\ cb' = [state |-> CLOSED, failure_count |-> 0,
              last_failure_time |-> NoTime, success_count |-> 0]
    /\ cblast' = [op |-> "reset", pre |-> cb, probe |-> cb, invoked |-> FALSE,
                  outcome |-> "reset", at |-> now, end |-> now,
                  opened |-> opened_at]
    /\ opened_at' = [opened_at EXCEPT !.reset = TRUE]
    /\ UNCHANGED now

\* Time passes between operations.
Tick ==
    /\ now < MaxTime
    /\ now' = now + 1

(***************************************************************************)
(* resilience.py: CircuitBreaker shared by concurrent callers              *)
(***************************************************************************)

\* The callers (threads, or tasks through call_async) that share a breaker.
Callers == 1..MaxCallers

\* A caller outside call(): where it is, the state it found after the reset
\* check, and the _failure_count it has read and not yet written back.
IdleCaller == [pc |-> "idle", probe |-> CLOSED, read |-> 0]

\* No caller is in call(), and no calls overlap.
ConcIdle ==
    /\ callers = [c \in Callers |-> IdleCaller]
    /\ batch = [start |-> NewBreaker, at |-> 0, calls |-> <<>>]

\* Some caller is between the entry of call() and the end of its
\* _on_success or _on_failure.
InFlight == {c \in Callers : callers[c].pc \in {"running", "failing"}}

\* The history of overlapping calls after a call of caller c ended in
\* `outcome`, and the callers after it: a call that begins when none is in
\* flight opens a new group.
EndedIn(outcome, fresh) ==
    IF fresh THEN [start |-> cb, at |-> now, calls |-> <<outcome>>]
    ELSE [batch EXCEPT !.calls = Append(@, outcome)]

\* CircuitBreaker.call and call_async up to the invocation of the wrapped
\* function: the reset check and the rejection when the breaker is OPEN.
\* No lock is taken, so other callers may be in flight.
ConcEnter(c) ==
    /\ callers[c].pc \notin {"running", "failing"}
    /\ InFlight # {} => callers[c].pc = "idle"
    /\ LET b1 == EnterCall(cb, now)
           fresh == InFlight = {}
           others == [d \in Callers |-> IF fresh THEN IdleCaller ELSE callers[d]]
       IN /\ cb' = b1
          /\ IF b1.state = OPEN
             THEN /\ callers' = [others EXCEPT ![c] = [IdleCaller EXCEPT !.pc = "done"]]
                  /\ batch' = EndedIn("rejected", fresh)
             ELSE /\ callers' = [others EXCEPT ![c] =
                                   [pc |-> "running", probe |-> b1.state, read |-> 0]]
                  /\ batch' = IF fresh THEN [start |-> cb, at |-> now, calls |-> <<>>] ELSE batch
    /\ UNCHANGED <<now, cbcfg, cblast, opened_at>>

\* The wrapped function returned: _on_success.
ConcSucceed(c) ==
    /\ callers[c].pc = "running"
    /\ cb' = OnSuccess(cb)
    /\ callers' = [callers EXCEPT ![c].pc = "done"]
    /\ batch' = EndedIn("success", FALSE)
    /\ UNCHANGED <<now, cbcfg, cblast, opened_at>>

\* The wrapped function raised: _on_failure reads _failure_count, the first
\* half of `self._failure_count += 1`.
ConcFailRead(c) ==
    /\ callers[c].pc = "running"
    /\ cb.failure_count < MaxFailureCount
    /\ callers' = [callers EXCEPT ![c].pc = "failing", ![c].read = cb.failure_count]
    /\ UNCHANGED <<now, cbvars, batch>>

\* _on_failure writes the count it read plus one, records the time and
\* opens the breaker as its state and the count it wrote say.
ConcFailWrite(c) ==
    /\ callers[c].pc = "failing"
    /\ cb' = OnFailure([cb EXCEPT !.failure_count = callers[c].read], now)
    /\ callers' = [callers EXCEPT ![c].pc = "done"]
    /\ batch' = EndedIn("failure", FALSE)
    /\ UNCHANGED <<now, cbcfg, cblast, opened_at>>

\* Time passes while no call is in flight.
ConcTick ==
    /\ InFlight = {}
    /\ Tick
    /\ UNCHANGED <<cbvars, concvars>>

\* CircuitBreaker.call made alone on breaker b at time t by a caller whose
\* wrapped function ends as `outcome` says; a call that was rejected when
\* it was made beside others may end either way here.
SeqCall(b, outcome, t) ==
    LET b1 == EnterCall(b, t) IN
    IF b1.state = OPEN THEN {b1}
    ELSE CASE outcome = "success" -> {OnSuccess(b1)}
           [] outcome = "failure" -> {OnFailure(b1, t)}
           [] OTHER -> {OnSuccess(b1), OnFailure(b1, t)}

\* The breakers that the calls with indices in S, made one after the other
\* in some order from breaker b at time t, can leave.
RECURSIVE SeqResults(_, _, _)
SeqResults(b, S, t) ==
    IF S = {} THEN {b}
    ELSE UNION { UNION { SeqResults(b2, S \ {i}, t) : b2 \in SeqCall(b, batch.calls[i], t) }
                 : i \in S }

(***************************************************************************)
(* resilience.py: retry                                                    *)
(***************************************************************************)

\* The exceptions the wrapped function may raise: an instance of
\* config.retryable_exceptions or not (caught), a ChimeraError or not
\* (chimera), and a ChimeraError's retryable flag.
PlainError == [caught |-> TRUE, chimera |-> FALSE, retryable |-> FALSE]
ChimeraRetryable == [caught |-> TRUE, chimera |-> TRUE, retryable |-> TRUE]
ChimeraFatal == [caught |-> TRUE, chimera |-> TRUE, retryable |-> FALSE]
OutsideError == [caught |-> FALSE, chimera |-> FALSE, retryable |-> FALSE]
OutsideChimera == [caught |-> FALSE, chimera |-> TRUE, retryable |-> TRUE]
ErrorKinds == {PlainError, ChimeraRetryable, ChimeraFatal, OutsideError, OutsideChimera}

\* What one call of the wrapped function does: it returns, or raises.
Ok == [ok |-> TRUE, error |-> PlainError]
Raises(e) == [ok |-> FALSE, error |-> e]
AttemptOutcomes == {Ok} \cup {Raises(e) : e \in ErrorKinds}

\* No exception (last_exception = None), no result yet.
NoError == [n |-> 0, error |-> PlainError]

\* retry.sync_wrapper before it is called, for a decorator made with
\* max_attempts = m.
RetryIdle(m) ==
    [pc |-> "idle", max_attempts |-> m, attempt |-> 0, calls |-> 0,
     slept |-> <<>>, outcomes |-> <<>>,
     last_exception |-> NoError, raised |-> NoError, result |-> 0]

\* A plausible bug: the retryable flag of a ChimeraError is not honoured.
AfterErrorIgnoreFlag(e, attempt) ==
    IF ~e.caught THEN "propagate"
    ELSE IF attempt < rt.max_attempts - 1 THEN "sleep"
    ELSE "exhausted"

\* A plausible bug: the wrapper sleeps after the last attempt as well.
AfterErrorSleepLast(e, attempt) ==
    IF ~e.caught THEN "propagate"
    ELSE IF e.chimera /\ ~e.retryable THEN "raise"
    ELSE IF attempt < rt.max_attempts THEN "sleep"
    ELSE "exhausted"

\* retry.sync_wrapper, the except clause: what follows an exception e raised
\* by attempt number `attempt` (counted from 0).
AfterError(e, attempt) ==
    IF ~e.caught THEN "propagate"
    ELSE IF e.chimera /\ ~e.retryable THEN "raise"
    ELSE IF attempt < rt.max_attempts - 1 THEN "sleep"
    ELSE "exhausted"

\* The end of one iteration of the loop: the next attempt, or, after the
\* last one, `raise last_exception`.
NextIteration(r) ==
    IF r.attempt + 1 < r.max_attempts
    THEN [r EXCEPT !.pc = "attempt", !.attempt = @ + 1]
    ELSE [r EXCEPT !.pc = "raised", !.attempt = @ + 1, !.raised = r.last_exception]

\* The wrapper is called.
RetryInvoke ==
    /\ rt.pc = "idle"
    /\ rt' = [rt EXCEPT !.pc = "attempt", !.attempt = 0, !.last_exception = NoError]

\* One iteration of `for attempt in range(config.max_attempts)`: the wrapped
\* function is called and ends in `outcome`. On the last iteration the loop
\* ends and last_exception is raised.
RetryAttempt(outcome) ==
    /\ rt.pc = "attempt"
    /\ rt.attempt < rt.max_attempts
    /\ LET n == rt.calls + 1
           called == [rt EXCEPT !.calls = n, !.outcomes = Append(@, outcome)]
           e == [n |-> n, error |-> outcome.error]
       IN IF outcome.ok
          THEN rt' = [called EXCEPT !.pc = "returned", !.result = n]
          ELSE LET then == AfterError(outcome.error, rt.attempt) IN
               CASE then = "propagate" ->
                        rt' = [called EXCEPT !.pc = "raised", !.raised = e]
                 [] then = "raise" ->
                        rt' = [called EXCEPT !.pc = "raised", !.raised = e,
                                             !.last_exception = e]
                 [] then = "sleep" ->
                        rt' = [called EXCEPT !.pc = "sleep", !.last_exception = e]
                 [] OTHER ->
                        rt' = NextIteration([called EXCEPT !.last_exception = e])

\* time.sleep(delay), delay = config.get_delay(attempt), then the next
\* iteration.
RetrySleep ==
    /\ rt.pc = "sleep"
    /\ rt' = NextIteration([rt EXCEPT !.slept = Append(@, rt.attempt)])

RECURSIVE Pow2(_)
\* 2 ** n
Pow2(n) == IF n = 0 THEN 1 ELSE 2 * Pow2(n - 1)

\* min(a, b)
Min(a, b) == IF a <= b THEN a ELSE b

(***************************************************************************)
(* resilience.py: withTimeout and withTimeoutAsync                         *)
(***************************************************************************)

\* Times of this part are counted in half seconds.
HalvesPerSecond == 2

\* The two functions.
TimeoutVariants == {"sync", "async"}

\* One call: the variant, timeout_seconds, how long the callable runs,
\* whether it then raises an error of its own instead of returning, and
\* whether a timeout_error was passed.
TimeoutInputs ==
    [variant : TimeoutVariants, timeout : 1..MaxBudget, runs : 0..MaxRunTime,
     raises : BOOLEAN, custom : BOOLEAN]

\* What the caller gets: the result, or an exception. The built-in
\* TimeoutError is an Exception that is no ChimeraError; the error
\* withTimeoutAsync builds is a ChimeraError with retryable=True; a
\* timeout_error passed by the caller is whatever the caller made it.
Returned == [kind |-> "result", error |-> PlainError]
TimeoutErrorBuiltin == [kind |-> "TimeoutError", error |-> PlainError]
ChimeraTimeout == [kind |-> "ChimeraError", error |-> ChimeraRetryable]
CustomTimeoutError == [kind |-> "timeout_error", error |-> PlainError]

\* The error the callable raised itself, which no except clause of the
\* two functions catches.
CallableError == [kind |-> "error", error |-> PlainError]

\* No call was made.  alarm is the SIGALRM timer of the process: "unset"
\* when none was set, "armed" while one is pending, "disarmed" after
\* signal.alarm(0), "fired" once the signal was delivered.
TimeoutIdle(i) == [input |-> i, pc |-> "idle", outcome |-> Returned, alarm |-> "unset"]

\* signal.alarm(int(timeout_seconds)): the time at which SIGALRM is
\* delivered, in half seconds; 0 when int() truncates to 0, which sets no
\* alarm.
AlarmAt(timeout) == (timeout \div HalvesPerSecond) * HalvesPerSecond

\* What ends first: the callable (TRUE), the timer (FALSE), or either when
\* both end at the same moment.
CompletesBefore(runs, deadline) ==
    IF runs < deadline THEN {TRUE}
    ELSE IF runs > deadline THEN {FALSE}
    ELSE BOOLEAN

\* A plausible bug: signal.alarm(0) stands in a finally clause.
AlarmAfterErrorFinally(deadline) == "disarmed"

\* The timer when the callable's own error leaves withTimeout: the try
\* statement has no finally and its except clause is for TimeoutError, so
\* signal.alarm(0) is not reached and the alarm that was set is pending.
AlarmAfterError(deadline) == IF deadline = 0 THEN "unset" ELSE "armed"

\* What the callable ends with when it is not cut off, and the timer then:
\* signal.alarm(0) follows result = func() alone.
CallableEnds(i, deadline) ==
    IF i.raises THEN [outcome |-> CallableError, alarm |-> AlarmAfterError(deadline)]
    ELSE [outcome |-> Returned, alarm |-> "disarmed"]

\* withTimeout: the outcomes of a call, and the timer when it gives
\* control back.
WithTimeout(i) ==
    LET deadline == AlarmAt(i.timeout) IN
    IF deadline = 0 THEN {CallableEnds(i, deadline)}
    ELSE { IF done THEN CallableEnds(i, deadline)
           ELSE [outcome |-> IF i.custom THEN CustomTimeoutError ELSE TimeoutErrorBuiltin,
                 alarm |-> "fired"] : done \in CompletesBefore(i.runs, deadline) }

\* withTimeoutAsync: the outcomes of a call; it sets no alarm.
WithTimeoutAsync(i) ==
    { [outcome |-> IF done THEN (IF i.raises THEN CallableError ELSE Returned)
                   ELSE IF i.custom THEN CustomTimeoutError
                   ELSE ChimeraTimeout,
       alarm |-> "unset"] : done \in CompletesBefore(i.runs, i.timeout) }

\* One of the two functions is called with the inputs drawn.
CallWithTimeout ==
    /\ tmo.pc = "idle"
    /\ \E o \in IF tmo.input.variant = "sync" THEN WithTimeout(tmo.input)
                ELSE WithTimeoutAsync(tmo.input) :
          tmo' = [tmo EXCEPT !.pc = "done", !.outcome = o.outcome, !.alarm = o.alarm]

\* The alarm a call left pending goes off in the code that runs after the
\* call: timeout_handler is still installed and raises TimeoutError there.
AlarmGoesOff ==
    /\ tmo.pc = "done"
    /\ tmo.alarm = "armed"
    /\ tmo' = [tmo EXCEPT !.pc = "interrupted", !.alarm = "fired"]

\* No call of a timeout wrapper is made.
TmoIdle ==
    tmo = TimeoutIdle([variant |-> "sync", timeout |-> 1, runs |-> 0, raises |-> FALSE,
                       custom |-> FALSE])

(***************************************************************************)
(* resilience.py: the backoff strategies and the delays retry sleeps       *)
(***************************************************************************)

\* Delays are counted in units of which base_delay and max_delay hold a
\* multiple of four, so that a quarter of a delay is a whole number
\* (0.01 s is four units of 2.5 ms).
JitterDivisor == 4

RetryStrategy == {"exponential", "linear", "constant"}

\* exponential_backoff: the delays it can return. With jitter the delay is
\* moved by a random amount of at most a quarter of it, either way; the
\* two ends and the middle stand for the range.
ExponentialBackoff(attempt, base_delay, max_delay, jitter) ==
    LET delay == Min(base_delay * Pow2(attempt), max_delay)
        jitter_amount == delay \div JitterDivisor
    IN IF jitter
       THEN {delay - jitter_amount, delay, delay + jitter_amount}
       ELSE {delay}

\* linear_backoff
LinearBackoff(attempt, base_delay, max_delay) ==
    Min(base_delay * (attempt + 1), max_delay)

\* constant_backoff
ConstantBackoff(delay) == delay

\* RetryConfig.__init__ as retry() calls it: max_attempts, strategy,
\* base_delay, max_delay and retryable_exceptions are passed on, jitter is
\* not, so it keeps its default, True.
RetryConfig(max_attempts, strategy, base_delay, max_delay) ==
    [max_attempts |-> max_attempts, strategy |-> strategy,
     base_delay |-> base_delay, max_delay |-> max_delay, jitter |-> TRUE]

\* The configurations of the decorated functions.
RetryConfigs ==
    { RetryConfig(m, s, JitterDivisor * b, JitterDivisor * c) :
         m \in 1..MaxBackoffAttempts, s \in RetryStrategy,
         b \in 1..MaxBase, c \in 1..MaxCap }

\* RetryConfig.get_delay: the delays it can return.
GetDelay(config, attempt) ==
    CASE config.strategy = "exponential" ->
            ExponentialBackoff(attempt, config.base_delay, config.max_delay, config.jitter)
      [] config.strategy = "linear" ->
            {LinearBackoff(attempt, config.base_delay, config.max_delay)}
      [] OTHER -> {ConstantBackoff(config.base_delay)}

\* A decorated function before it is called.
BackoffIdle(config) ==
    [config |-> config, pc |-> "attempt", attempt |-> 0, calls |-> 0, delays |-> <<>>]

\* retry.sync_wrapper, one iteration for a wrapped function that returns
\* (ok) or raises a retryable exception: the delay of get_delay(attempt) is
\* slept after every failed attempt but the last.
BackoffAttempt(ok) ==
    /\ bk.pc = "attempt"
    /\ IF ok
       THEN bk' = [bk EXCEPT !.pc = "returned", !.calls = @ + 1]
       ELSE IF bk.attempt < bk.config.max_attempts - 1
       THEN \E delay \in GetDelay(bk.config, bk.attempt) :
               bk' = [bk EXCEPT !.calls = @ + 1, !.attempt = @ + 1,
                                !.delays = Append(@, delay)]
       ELSE bk' = [bk EXCEPT !.pc = "raised", !.calls = @ + 1, !.attempt = @ + 1]
    /\ UNCHANGED <<tmo, session, monvars, obsvars>>

\* No decorated function of this part is called.
BkIdle == bk = BackoffIdle(RetryConfig(1, "constant", JitterDivisor, JitterDivisor))

(***************************************************************************)
(* query/context_manager.py: ContextManager over a reachable Redis         *)
(***************************************************************************)

\* The number of queries add_query_to_history keeps.
HistoryLimit == 10

\* The number of recent queries extract_context_for_query looks at.
RecentQueries == 3

\* intent without "time_range" (or with an empty one).
NoRange == 0

\* What a query entry holds beside its text and timestamp: the list of
\* its entities (as "type:value" keys, in order, repeats included), the
\* time range of its intent and the metrics of its intent.
QueryKinds ==
    { [entities |-> <<"ASSET:zec">>, time_range |-> 1, metrics |-> <<"price">>],
      [entities |-> <<"METRIC:fees", "METRIC:fees">>, time_range |-> NoRange,
       metrics |-> <<"fees", "price">>],
      [entities |-> <<"ASSET:zec", "METRIC:fees">>, time_range |-> 2, metrics |-> <<>>] }

\* The kind of the queries of a long conversation.
PlainKind == [entities |-> <<"ASSET:zec">>, time_range |-> 1, metrics |-> <<"price">>]

\* The n-th query entry made, of the given kind.
QueryEntry(n, kind) ==
    [n |-> n, entities |-> kind.entities, time_range |-> kind.time_range,
     metrics |-> kind.metrics]

\* No result of extract_context_for_query ({} is returned for no context).
NoExtract ==
    [last_query |-> 0, recent_entities |-> {}, time_range_context |-> NoRange,
     metric_context |-> <<>>, query_count |-> 0]

\* No key is stored for the session.
SessionIdle ==
    session = [exists |-> FALSE, has_history |-> FALSE, query_history |-> <<>>,
               ttl_left |-> 0, appended |-> <<>>, count |-> 0, last |-> "none",
               extracted |-> NoExtract]

\* l[-k:]
LastOf(l, k) ==
    IF Len(l) <= k THEN l ELSE SubSeq(l, Len(l) - k + 1, Len(l))

\* A plausible bug: the oldest entries are kept.
KeepOldest(query_history) ==
    IF Len(query_history) > HistoryLimit
    THEN SubSeq(query_history, 1, HistoryLimit)
    ELSE query_history

\* add_query_to_history: "keep only last 10 queries".
KeepLast(query_history) ==
    IF Len(query_history) > HistoryLimit
    THEN LastOf(query_history, HistoryLimit)
    ELSE query_history

\* get_context: redis.get, which leaves the key's time to live alone.
GetContext ==
    /\ session' = [session EXCEPT !.last = "get_context"]

\* add_query_to_history: the context is read, or made new with an empty
\* history; the entry is appended, the history trimmed, and save_context
\* stores it with setex, which sets the time to live to ttl. A stored
\* context without "query_history" raises KeyError.
AddQueryToHistory(kind) ==
    /\ session.count < MaxAppended
    /\ LET entry == QueryEntry(session.count + 1, kind) IN
       IF session.exists /\ ~session.has_history
       THEN session' = [session EXCEPT !.last = "add_query_to_history_raised"]
       ELSE session' = [session EXCEPT
               !.exists = TRUE, !.has_history = TRUE,
               !.query_history = KeepLast(Append(@, entry)),
               !.ttl_left = SessionTTL,
               !.appended = Append(@, entry),
               !.count = @ + 1,
               !.last = "add_query_to_history"]

\* update_context with updates of fields other than the history: the
\* context is read, or made as {}; it is updated and saved with setex.
UpdateContext ==
    /\ session' = [session EXCEPT !.exists = TRUE, !.ttl_left = SessionTTL,
                                  !.last = "update_context"]

\* extend_ttl: redis.expire, which sets the time to live of a stored key.
ExtendTtl ==
    /\ session' = [session EXCEPT
          !.ttl_left = IF session.exists THEN SessionTTL ELSE @,
          !.last = "extend_ttl"]

\* A tick of the clock: Redis removes the key when its time to live is over.
SessionTick ==
    /\ session.exists
    /\ session' = IF session.ttl_left > 1
                  THEN [session EXCEPT !.ttl_left = @ - 1, !.last = "tick"]
                  ELSE [session EXCEPT !.exists = FALSE, !.has_history = FALSE,
                                       !.query_history = <<>>, !.appended = <<>>,
                                       !.ttl_left = 0, !.last = "expired"]

\* The number of occurrences of key in the list l.
Occurrences(l, key) == Cardinality({i \in 1..Len(l) : l[i] = key})

RECURSIVE SumOccurrences(_, _)
\* entity_counts[key] after the loop over the entries of history.
SumOccurrences(history, key) ==
    IF history = <<>> THEN 0
    ELSE Occurrences(history[1].entities, key) + SumOccurrences(Tail(history), key)

\* All entity keys of the entries of history.
KeysOf(history) ==
    UNION { {history[i].entities[j] : j \in 1..Len(history[i].entities)}
            : i \in 1..Len(history) }

\* _extract_common_entities: the keys counted more than once.
ExtractCommonEntities(history) ==
    {key \in KeysOf(history) : SumOccurrences(history, key) > 1}

RECURSIVE ExtractTimeRangeContext(_)
\* _extract_time_range_context: the first time range from the end.
ExtractTimeRangeContext(history) ==
    IF history = <<>> THEN NoRange
    ELSE IF history[Len(history)].time_range # NoRange
    THEN history[Len(history)].time_range
    ELSE ExtractTimeRangeContext(SubSeq(history, 1, Len(history) - 1))

RECURSIVE AppendNew(_, _)
\* metrics after `if metric not in metrics: metrics.append(metric)` for
\* each metric of the list more.
AppendNew(metrics, more) ==
    IF more = <<>> THEN metrics
    ELSE AppendNew(IF \E i \in 1..Len(metrics) : metrics[i] = more[1]
                   THEN metrics ELSE Append(metrics, more[1]),
                   Tail(more))

RECURSIVE ExtractMetricContext(_)
\* _extract_metric_context: the metrics of the entries from the last to
\* the first, each once.
ExtractMetricContext(history) ==
    IF history = <<>> THEN <<>>
    ELSE LET rest == SubSeq(history, 1, Len(history) - 1)
             first == AppendNew(<<>>, history[Len(history)].metrics)
         IN AppendNew(first, ExtractMetricContext(rest))

\* extract_context_for_query
ExtractContextForQuery ==
    /\ session' = [session EXCEPT
          !.last = "extract_context_for_query",
          !.extracted =
             IF ~session.exists THEN NoExtract
             ELSE LET history == session.query_history
                      recent == LastOf(history, RecentQueries)
                  IN [last_query |-> IF history = <<>> THEN 0 ELSE history[Len(history)].n,
                      recent_entities |-> ExtractCommonEntities(recent),
                      time_range_context |-> ExtractTimeRangeContext(recent),
                      metric_context |-> ExtractMetricContext(recent),
                      query_count |-> Len(history)]]

(***************************************************************************)
(* messaging/subscriber.py and messaging/base_agent.py                     *)
(***************************************************************************)

\* get_routing_key_map of the agent: the routing keys that have a message
\* class (the test agent's map).
RoutingKeyMap == {"test.request", "test.response"}

\* The routing keys a delivery may carry: the mapped ones and one that no
\* map entry matches.
DeliveryKeys == RoutingKeyMap \cup {"unknown.key"}

\* properties.correlation_id is None
NoId == 0

\* The context argument of publish_request: None, or a dictionary.
NoContext == "None"
EmptyContext == "{}"
Contexts == {NoContext, "ctxA"}

\* get_correlation_context returns None
NoEntry ==
    [request_routing_key |-> "", reply_routing_key |-> "",
     context |-> NoContext, timestamp |-> NoTime]

\* int(time.time() * 1000)
MsPerSecond == 1000

\* BaseAgent._get_timestamp
GetTimestamp == now * MsPerSecond

\* BaseAgent.__init__ and EventSubscriber.__init__: the agent after
\* construction.
NewAgent ==
    /\ consuming = FALSE
    /\ correlation_map = <<>>
    /\ next_uuid = 1
    /\ next_tag = 1
    /\ channel_log = <<>>
    /\ handled_messages = <<>>
    /\ published = <<>>
    /\ deliveries = <<>>
    /\ issued = <<>>
    /\ msglast = [op |-> "none", id |-> NoId, arg |-> 0, returned |-> 0]
    /\ failures = <<>>

\* A plausible bug: an unknown routing key gets a generic message class.
GetMessageClassRaisesNever(routing_key) == FALSE

\* BaseAgent.get_message_class: whether it raises ValueError.
GetMessageClassRaises(routing_key) == routing_key \notin RoutingKeyMap

\* What may go wrong in the tracing calls of handle_message: nothing, a call
\* before route_message raises, or a call after route_message raises.
TracingFaults == {"none", "before", "after"}

\* BaseAgent.handle_message: the results (TRUE: returned, FALSE: raised) of
\* its invocations of route_message, in order, given that tracing fails as
\* `fault` says, that the first invocation of route_message ends as r1 says
\* and a second one as r2 says. handle_message raises exactly when the last
\* invocation raised.
HandleMessage(fault, r1, r2) ==
    IF tracing_available
    THEN IF fault = "before" THEN <<r1>>
         ELSE IF r1 /\ fault = "none" THEN <<r1>>
         ELSE <<r1, r2>>
    ELSE <<r1>>

\* A plausible bug: the message is acknowledged before it is handled, and
\* rejected as well when handling fails.
AcknowledgeEarly(tag, raised) ==
    IF raised
    THEN << [op |-> "ack", delivery_tag |-> tag, requeue |-> FALSE],
            [op |-> "nack", delivery_tag |-> tag, requeue |-> FALSE] >>
    ELSE << [op |-> "ack", delivery_tag |-> tag, requeue |-> FALSE] >>

\* EventSubscriber._on_message, the end of the try block and the except
\* clause: the calls on the channel, given whether handling raised.
Acknowledge(tag, raised) ==
    IF raised
    THEN << [op |-> "nack", delivery_tag |-> tag, requeue |-> FALSE] >>
    ELSE << [op |-> "ack", delivery_tag |-> tag, requeue |-> FALSE] >>

\* EventSubscriber._on_message for a delivery with the given routing key and
\* correlation id, whose body deserialises or not (deser_ok).
OnMessage(routing_key, correlation_id, deser_ok, fault, r1, r2) ==
    /\ consuming
    /\ next_tag <= MaxDeliveries
    /\ LET tag == next_tag
           early == GetMessageClassRaises(routing_key) \/ ~deser_ok
           calls == IF early THEN <<>> ELSE HandleMessage(fault, r1, r2)
           raised == early \/ ~calls[Len(calls)]
       IN /\ handled_messages' = handled_messages \o
                 [i \in 1..Len(calls) |->
                     [delivery_tag |-> tag, routing_key |-> routing_key,
                      correlation_id |-> correlation_id, ok |-> calls[i]]]
          /\ channel_log' = channel_log \o Acknowledge(tag, raised)
          /\ deliveries' = Append(deliveries,
                 [delivery_tag |-> tag, routing_key |-> routing_key,
                  correlation_id |-> correlation_id, raised |-> raised])
          /\ next_tag' = tag + 1
          /\ msglast' = [op |-> "deliver", id |-> correlation_id, arg |-> 0, returned |-> 0]
    /\ UNCHANGED <<proto_available, failures, tracing_available, consuming, correlation_map, next_uuid,
                   published, issued>>

\* EventSubscriber.start_consuming, up to the blocking consumer loop.
StartConsuming ==
    /\ ~consuming
    /\ consuming' = TRUE
    /\ msglast' = [op |-> "start_consuming", id |-> NoId, arg |-> 0, returned |-> 0]
    /\ UNCHANGED <<proto_available, failures, tracing_available, correlation_map, next_uuid, next_tag,
                   channel_log, handled_messages, published, deliveries, issued>>

\* A plausible bug: a missing context is stored as None, not as {}.
NewEntryNoDefault(routing_key, reply_routing_key, context) ==
    [request_routing_key |-> routing_key,
     reply_routing_key |-> reply_routing_key,
     context |-> context,
     timestamp |-> GetTimestamp]

\* BaseAgent.publish_request: the entry stored for the correlation id.
NewEntry(routing_key, reply_routing_key, context) ==
    [request_routing_key |-> routing_key,
     reply_routing_key |-> reply_routing_key,
     context |-> IF context = NoContext THEN EmptyContext ELSE context,
     timestamp |-> GetTimestamp]

\* EventPublisher.publish, the BasicProperties it builds: delivery_mode,
\* content_type, correlation_id, app_id and timestamp are set and headers
\* are not, so the message carries no header.
BasicPropertiesHeaders == {}

\* m with key k set to value v (a dictionary assignment).
DictSet(m, k, v) == [x \in DOMAIN m \cup {k} |-> IF x = k THEN v ELSE m[x]]

\* m without the keys in ks (del m[k] for each k in ks).
DictDel(m, ks) == [x \in DOMAIN m \ ks |-> m[x]]

\* A plausible bug: the request is published first and the entry is stored
\* only when that did not raise.
PublishRequestThenStore(routing_key, reply_routing_key, context, pub_ok) ==
    /\ next_uuid <= MaxRequests
    /\ LET id == next_uuid IN
       /\ next_uuid' = id + 1
       /\ IF pub_ok
          THEN /\ correlation_map' =
                      DictSet(correlation_map, id,
                              [request_routing_key |-> routing_key,
                               reply_routing_key |-> reply_routing_key,
                               context |-> context,
                               timestamp |-> now])
               /\ published' = Append(published,
                      [routing_key |-> routing_key, correlation_id |-> id, headers |-> {}])
               /\ issued' = DictSet(issued, id,
                      [routing_key |-> routing_key,
                       reply_routing_key |-> reply_routing_key,
                       context |-> context])
               /\ msglast' = [op |-> "publish_request", id |-> id, arg |-> 0, returned |-> id]
          ELSE /\ UNCHANGED <<correlation_map, published, issued>>
               /\ msglast' = [op |-> "publish_request_raised", id |-> id, arg |-> 0,
                              returned |-> 0]
    /\ UNCHANGED <<proto_available, failures, tracing_available, consuming, next_tag, channel_log,
                   handled_messages, deliveries>>

\* BaseAgent.publish_request: the entry is stored under a fresh id, then the
\* request is published; publisher.publish returns (pub_ok) or raises.
PublishRequest(routing_key, reply_routing_key, context, pub_ok) ==
    /\ next_uuid <= MaxRequests
    /\ LET id == next_uuid IN
       /\ next_uuid' = id + 1
       /\ correlation_map' =
              DictSet(correlation_map, id, NewEntry(routing_key, reply_routing_key, context))
       /\ IF pub_ok
          THEN /\ published' = Append(published,
                      [routing_key |-> routing_key, correlation_id |-> id,
                       headers |-> BasicPropertiesHeaders])
               /\ issued' = DictSet(issued, id,
                      [routing_key |-> routing_key,
                       reply_routing_key |-> reply_routing_key,
                       context |-> context])
               /\ msglast' = [op |-> "publish_request", id |-> id, arg |-> 0, returned |-> id]
          ELSE /\ UNCHANGED <<published, issued>>
               /\ msglast' = [op |-> "publish_request_raised", id |-> id, arg |-> 0,
                              returned |-> 0]
    /\ UNCHANGED <<proto_available, failures, tracing_available, consuming, next_tag, channel_log,
                   handled_messages, deliveries>>

\* BaseAgent.get_correlation_context
GetCorrelationContext(correlation_id) ==
    IF correlation_id \in DOMAIN correlation_map
    THEN correlation_map[correlation_id]
    ELSE NoEntry

\* A plausible bug: clearing one correlation clears the registry.
ClearedAll(correlation_id) ==
    IF correlation_id \in DOMAIN correlation_map
    THEN DOMAIN correlation_map
    ELSE {}

\* BaseAgent.clear_correlation: the ids it deletes.
Cleared(correlation_id) ==
    IF correlation_id \in DOMAIN correlation_map
    THEN {correlation_id}
    ELSE {}

\* BaseAgent.clear_correlation
ClearCorrelation(correlation_id) ==
    /\ correlation_map' = DictDel(correlation_map, Cleared(correlation_id))
    /\ msglast' = [op |-> "clear_correlation", id |-> correlation_id, arg |-> 0,
                   returned |-> 0]
    /\ UNCHANGED <<proto_available, failures, tracing_available, consuming, next_uuid, next_tag, channel_log,
                   handled_messages, published, deliveries, issued>>

\* A plausible bug: an entry exactly max_age_seconds old is reaped too.
OldIdsInclusive(max_age_seconds) ==
    LET cutoff_time == GetTimestamp - (max_age_seconds * MsPerSecond) IN
    {c \in DOMAIN correlation_map : correlation_map[c].timestamp <= cutoff_time}

\* BaseAgent.cleanup_old_correlations: old_ids
OldIds(max_age_seconds) ==
    LET cutoff_time == GetTimestamp - (max_age_seconds * MsPerSecond) IN
    {c \in DOMAIN correlation_map : correlation_map[c].timestamp < cutoff_time}

\* BaseAgent.cleanup_old_correlations
CleanupOldCorrelations(max_age_seconds) ==
    /\ correlation_map' = DictDel(correlation_map, OldIds(max_age_seconds))
    /\ msglast' = [op |-> "cleanup_old_correlations", id |-> NoId,
                   arg |-> max_age_seconds,
                   returned |-> Cardinality(OldIds(max_age_seconds))]
    /\ UNCHANGED <<proto_available, failures, tracing_available, consuming, next_uuid, next_tag, channel_log,
                   handled_messages, published, deliveries, issued>>

\* BaseAgent.close: the publisher is closed, the subscriber stops consuming
\* and closes its channels, and the registry is emptied.
Close ==
    /\ consuming' = FALSE
    /\ correlation_map' = <<>>
    /\ msglast' = [op |-> "close", id |-> NoId, arg |-> 0, returned |-> 0]
    /\ UNCHANGED <<proto_available, failures, tracing_available, next_uuid, next_tag, channel_log,
                   handled_messages, published, deliveries, issued>>

(***************************************************************************)
(* base_agent.py: the correlation registry used from several threads       *)
(***************************************************************************)

\* No thread is inside clear_correlation or cleanup_old_correlations.
RegIdle ==
    regops = [cleanup_pc |-> "idle", old_ids |-> {}, clear_pc |-> "idle",
              clear_id |-> NoId, raised |-> "none"]

\* BaseAgent.cleanup_old_correlations, the list comprehension: old_ids is
\* computed; the deletions follow. No lock is held.
CleanupScan(max_age_seconds) ==
    /\ regops.cleanup_pc = "idle"
    /\ regops.raised = "none"
    /\ regops' = [regops EXCEPT !.cleanup_pc = "deleting",
                                !.old_ids = OldIds(max_age_seconds)]
    /\ UNCHANGED msgvars

\* The first id still in old_ids (dictionary order is insertion order, and
\* ids are issued in increasing order).
FirstOld == CHOOSE c \in regops.old_ids : \A d \in regops.old_ids : c <= d

\* BaseAgent.cleanup_old_correlations, one turn of the deletion loop:
\* `del self._correlation_map[corr_id]` raises KeyError when the id is gone.
CleanupDelete ==
    /\ regops.cleanup_pc = "deleting"
    /\ regops.old_ids # {}
    /\ IF FirstOld \in DOMAIN correlation_map
       THEN /\ correlation_map' = DictDel(correlation_map, {FirstOld})
            /\ regops' = [regops EXCEPT !.old_ids = @ \ {FirstOld}]
       ELSE /\ correlation_map' = correlation_map
            /\ regops' = [regops EXCEPT !.old_ids = {}, !.cleanup_pc = "idle",
                                        !.raised = "KeyError"]
    /\ UNCHANGED <<proto_available, failures, tracing_available, consuming, next_uuid,
                   next_tag, channel_log, handled_messages, published, deliveries,
                   issued, msglast>>

\* BaseAgent.cleanup_old_correlations, the end of the loop and the return.
CleanupReturn ==
    /\ regops.cleanup_pc = "deleting"
    /\ regops.old_ids = {}
    /\ regops' = [regops EXCEPT !.cleanup_pc = "idle"]
    /\ UNCHANGED msgvars

\* BaseAgent.clear_correlation, the membership test.
ClearCheck(correlation_id) ==
    /\ regops.clear_pc = "idle"
    /\ regops.raised = "none"
    /\ correlation_id \in DOMAIN correlation_map
    /\ regops' = [regops EXCEPT !.clear_pc = "checked", !.clear_id = correlation_id]
    /\ UNCHANGED msgvars

\* BaseAgent.clear_correlation, the del statement after the test passed.
ClearDelete ==
    /\ regops.clear_pc = "checked"
    /\ IF regops.clear_id \in DOMAIN correlation_map
       THEN /\ correlation_map' = DictDel(correlation_map, {regops.clear_id})
            /\ regops' = [regops EXCEPT !.clear_pc = "idle", !.clear_id = NoId]
       ELSE /\ correlation_map' = correlation_map
            /\ regops' = [regops EXCEPT !.clear_pc = "idle", !.clear_id = NoId,
                                        !.raised = "KeyError"]
    /\ UNCHANGED <<proto_available, failures, tracing_available, consuming, next_uuid,
                   next_tag, channel_log, handled_messages, published, deliveries,
                   issued, msglast>>

(***************************************************************************)
(* messaging/connection.py: ConnectionPool, and the subscriber's use of it *)
(***************************************************************************)

\* self._connection is None.
NoConn == 0

\* ConnectionPool.__init__ with its default arguments.
DefaultPool ==
    [max_retries |-> 5, initial_retry_delay |-> 1, max_retry_delay |-> 60,
     connection |-> NoConn]

\* The pools constructed: the default one, and those with small settings.
Pools ==
    {DefaultPool} \cup
    [max_retries : 0..MaxRetries, initial_retry_delay : 1..MaxInitialDelay,
     max_retry_delay : 1..MaxRetryDelay, connection : {NoConn}]

\* The callers of connect() and get_connection().
ConnCallers == 1..MaxConnCallers

\* A caller that is not inside connect().
IdleConnector ==
    [pc |-> "idle", attempt |-> 0, attempts |-> 0, slept |-> <<>>,
     error |-> "none", result |-> NoConn]

\* Pool p after construction: no connection opened yet, no caller in
\* connect(), and no subscriber constructed.
NewPool(p) ==
    /\ pool = p
    /\ conns = <<>>
    /\ connecting = [c \in ConnCallers |-> IdleConnector]
    /\ subscriber = [channel |-> NoConn, declared |-> NoConn, consuming_on |-> NoConn]

\* The default pool, for the specifications that leave it alone.
ConnIdle == NewPool(DefaultPool)

\* A plausible bug: the backoff is not capped.
CalculateRetryDelayUncapped(attempt) ==
    pool.initial_retry_delay * Pow2(attempt)

\* ConnectionPool._calculate_retry_delay
CalculateRetryDelay(attempt) ==
    Min(pool.initial_retry_delay * Pow2(attempt), pool.max_retry_delay)

\* ConnectionPool.is_connected
IsConnected == pool.connection # NoConn /\ conns[pool.connection]

\* The connections that are open.
OpenConns == {i \in 1..Len(conns) : conns[i]}

\* What pika.BlockingConnection(...) does: it returns a connection, raises
\* AMQPConnectionError or AMQPChannelError, or raises something else.
AttemptResults == {"ok", "amqp", "other"}

\* ConnectionPool.connect (and get_connection, which makes the same test
\* and calls it), up to the first attempt: the open connection is
\* returned; otherwise the loop is entered, or skipped when max_retries is 0.
ConnectEnter(c) ==
    /\ connecting[c].pc \in {"idle", "returned", "raised"}
    /\ connecting' = [connecting EXCEPT ![c] =
          IF IsConnected
          THEN [IdleConnector EXCEPT !.pc = "returned", !.result = pool.connection]
          ELSE IF pool.max_retries = 0
          THEN [IdleConnector EXCEPT !.pc = "raised", !.error = "amqp"]
          ELSE [IdleConnector EXCEPT !.pc = "attempting"]]
    /\ UNCHANGED <<pool, conns, subscriber>>

\* A plausible bug: the delay is slept after the last attempt too.
SleepsAfterAlways(attempt) == TRUE

\* ConnectionPool.connect, the except clause: whether it sleeps after the
\* failed attempt with this index.
SleepsAfter(attempt) == attempt < pool.max_retries - 1

\* ConnectionPool.connect, one turn of the loop up to the sleep.
ConnectAttempt(c, result) ==
    /\ connecting[c].pc = "attempting"
    /\ LET k == connecting[c] IN
       CASE result = "ok" ->
              /\ Len(conns) < MaxConnections
              /\ conns' = Append(conns, TRUE)
              /\ pool' = [pool EXCEPT !.connection = Len(conns) + 1]
              /\ connecting' = [connecting EXCEPT ![c] =
                    [k EXCEPT !.pc = "returned", !.attempts = @ + 1,
                              !.result = Len(conns) + 1]]
         [] result = "amqp" ->
              /\ connecting' = [connecting EXCEPT ![c] =
                    [k EXCEPT !.pc = IF SleepsAfter(k.attempt) THEN "sleeping" ELSE "raised",
                              !.attempts = @ + 1, !.error = "amqp"]]
              /\ UNCHANGED <<pool, conns>>
         [] OTHER ->
              /\ connecting' = [connecting EXCEPT ![c] =
                    [k EXCEPT !.pc = "raised", !.attempts = @ + 1, !.error = "other"]]
              /\ UNCHANGED <<pool, conns>>
    /\ UNCHANGED subscriber

\* ConnectionPool.connect, time.sleep(delay) and the next turn of the loop.
ConnectSleep(c) ==
    /\ connecting[c].pc = "sleeping"
    /\ connecting' = [connecting EXCEPT ![c] =
          [@ EXCEPT !.pc = "attempting",
                    !.slept = Append(@, CalculateRetryDelay(connecting[c].attempt)),
                    !.attempt = @ + 1]]
    /\ UNCHANGED <<pool, conns, subscriber>>

\* The broker or the network closes connection i; a consumer loop running
\* on it ends with an exception.
ConnectionLost(i) ==
    /\ i \in OpenConns
    /\ conns' = [conns EXCEPT ![i] = FALSE]
    /\ subscriber' = IF subscriber.consuming_on = i
                     THEN [subscriber EXCEPT !.consuming_on = NoConn]
                     ELSE subscriber
    /\ UNCHANGED <<pool, connecting>>

\* ConnectionPool.close
PoolClose ==
    /\ IsConnected
    /\ conns' = [conns EXCEPT ![pool.connection] = FALSE]
    /\ pool' = [pool EXCEPT !.connection = NoConn]
    /\ subscriber' = IF subscriber.consuming_on = pool.connection
                     THEN [subscriber EXCEPT !.consuming_on = NoConn]
                     ELSE subscriber
    /\ UNCHANGED connecting

\* ChannelManager.get_channel("subscriber") when the broker accepts the
\* connection at the first attempt: the connection the channel is on, and
\* the pool and connections after the call. An open channel is reused; else
\* the channel is created on get_connection()'s connection.
GetChannel ==
    IF subscriber.channel # NoConn /\ conns[subscriber.channel]
    THEN [channel |-> subscriber.channel, pool |-> pool, conns |-> conns]
    ELSE IF IsConnected
    THEN [channel |-> pool.connection, pool |-> pool, conns |-> conns]
    ELSE [channel |-> Len(conns) + 1,
          pool |-> [pool EXCEPT !.connection = Len(conns) + 1],
          conns |-> Append(conns, TRUE)]

\* EventSubscriber.__init__: _setup_queue declares the exchange, the queue,
\* the dead-letter exchange and queue and the bindings on the channel.
SubscriberInit ==
    /\ subscriber.declared = NoConn
    /\ pool.max_retries > 0
    /\ Len(GetChannel.conns) <= MaxConnections
    /\ pool' = GetChannel.pool
    /\ conns' = GetChannel.conns
    /\ subscriber' = [subscriber EXCEPT !.channel = GetChannel.channel,
                                        !.declared = GetChannel.channel]
    /\ UNCHANGED connecting

\* EventSubscriber.start_consuming: the channel is taken from the channel
\* manager and basic_consume is called on it.
SubscriberStartConsuming ==
    /\ subscriber.declared # NoConn
    /\ subscriber.consuming_on = NoConn
    /\ pool.max_retries > 0
    /\ Len(GetChannel.conns) <= MaxConnections
    /\ pool' = GetChannel.pool
    /\ conns' = GetChannel.conns
    /\ subscriber' = [subscriber EXCEPT !.channel = GetChannel.channel,
                                        !.consuming_on = GetChannel.channel]
    /\ UNCHANGED connecting

\* BaseAgent.close with the pool in view: the publisher's channels are
\* closed, stop_consuming stops the consumer (when it raises, the error is
\* logged and _consuming stays set), the subscriber's channels are closed
\* and the registry is emptied. ConnectionPool.close is not called.
AgentShutdown(stop_raises) ==
    /\ consuming' = (consuming /\ stop_raises)
    /\ correlation_map' = <<>>
    /\ msglast' = [op |-> "close", id |-> NoId, arg |-> 0, returned |-> 0]
    /\ subscriber' = [subscriber EXCEPT !.channel = NoConn, !.consuming_on = NoConn]
    /\ UNCHANGED <<pool, conns, connecting>>
    /\ UNCHANGED <<proto_available, failures, tracing_available, next_uuid, next_tag,
                   channel_log, handled_messages, published, deliveries, issued>>

(***************************************************************************)
(* The agents of the chain: what a handler does when its work raises       *)
(***************************************************************************)

\* The agents of the request/response chain.
Agents == {"query", "data_retrieval", "analysis", "narrative", "fact_checker", "follow_up"}

\* What is handed to publisher.publish: a Protocol Buffer message, or the
\* dictionary that model_dump() returns.
MessageKinds == {"proto", "dict"}

\* EventPublisher.publish, called with keyword arguments `keywords` beside
\* message, routing_key and correlation_id: the messages sent and whether it
\* raises. A keyword that is no parameter of publish raises TypeError at the
\* call; a message without SerializeToString raises inside the try block and
\* is re-raised; the channel is taken to be up.
PublisherPublish(kind, routing_key, correlation_id, keywords) ==
    IF keywords \ {"properties"} # {} THEN [sent |-> <<>>, raised |-> TRUE]
    ELSE IF kind # "proto" THEN [sent |-> <<>>, raised |-> TRUE]
    ELSE [sent |-> << [routing_key |-> routing_key, correlation_id |-> correlation_id,
                       headers |-> BasicPropertiesHeaders] >>,
          raised |-> FALSE]

\* BaseAgent.publish_response
PublishResponse(kind, routing_key, correlation_id) ==
    PublisherPublish(kind, routing_key, correlation_id, {})

\* BaseAgent.publish_event, given the id uuid4 would return: publish is
\* called with the keyword `headers`.
PublishEvent(kind, routing_key, correlation_id, fresh) ==
    PublisherPublish(kind, routing_key,
                     IF correlation_id = NoId THEN fresh ELSE correlation_id,
                     {"headers"})

\* Nothing is published and nothing is raised.
Swallowed == [sent |-> <<>>, raised |-> FALSE]

\* QueryAgent._handle_query_request, its except clause, and
\* _send_error_response.
QueryOnError(correlation_id) ==
    IF ~proto_available THEN Swallowed
    ELSE IF correlation_id # NoId
    THEN PublishResponse("proto", "query.error", correlation_id)
    ELSE Swallowed

\* DataRetrievalAgent._handle_data_request, its except clause: the error
\* response is a dictionary (model_dump()); the handler runs as a task, so
\* what it raises does not reach the caller of route_message.
DataRetrievalOnError(correlation_id) ==
    [PublishResponse("dict", "data_retrieval.error", correlation_id)
        EXCEPT !.raised = FALSE]

\* AnalysisAgent._handle_data_response and _handle_analysis_request, their
\* except clauses, and _publish_error.
AnalysisOnError(correlation_id) ==
    IF ~proto_available THEN Swallowed
    ELSE PublishEvent("proto", "analysis.error", correlation_id, next_uuid)

\* NarrativeAgent._handle_analysis_result and _handle_narrative_request,
\* their except clauses: the error is logged.
NarrativeOnError(correlation_id) == Swallowed

\* FactCheckerAgent._handle_narrative_generated and
\* _handle_fact_check_request, their except clauses: the error is logged.
FactCheckerOnError(correlation_id) == Swallowed

\* A plausible bug: the except clause raises the error again after it has
\* logged it.
FollowUpOnErrorRaises(correlation_id) == [sent |-> <<>>, raised |-> TRUE]

\* FollowUpAgent._handle_narrative_generated and _handle_followup_request,
\* their except clauses: the error is logged.
FollowUpOnError(correlation_id) == Swallowed

\* MonitoringAgent._handle_rule_config, its except clause: the error is
\* logged.
MonitoringOnError(correlation_id) == Swallowed

\* The except clause of the agent's handler, entered when the handler's
\* work raised while it processed a message with the given correlation id:
\* the messages sent and whether route_message raises.
OnHandlerError(agent, correlation_id) ==
    CASE agent = "query" -> QueryOnError(correlation_id)
      [] agent = "data_retrieval" -> DataRetrievalOnError(correlation_id)
      [] agent = "analysis" -> AnalysisOnError(correlation_id)
      [] agent = "narrative" -> NarrativeOnError(correlation_id)
      [] agent = "fact_checker" -> FactCheckerOnError(correlation_id)
      [] agent = "follow_up" -> FollowUpOnError(correlation_id)
      [] agent = "monitoring" -> MonitoringOnError(correlation_id)

\* A handler of `agent` fails while it processes a message with the given
\* correlation id.
HandlerFails(agent, correlation_id) ==
    /\ Len(failures) < MaxFailures
    /\ LET r == OnHandlerError(agent, correlation_id) IN
       /\ published' = published \o r.sent
       /\ failures' = Append(failures,
              [agent |-> agent, correlation_id |-> correlation_id,
               sent |-> r.sent, raised |-> r.raised])
    /\ UNCHANGED <<tracing_available, consuming, correlation_map, next_uuid, next_tag,
                   channel_log, handled_messages, deliveries, issued, msglast,
                   proto_available>>

\* The agents that consume from the exchange.
ConsumingAgents == Agents \cup {"monitoring"}

\* route_message of `agent` for a message its handler fails on
\* (work_raises) or not: TRUE when it returns, FALSE when it raises.  The
\* handler's work is inside its try block, so route_message raises only
\* what the except clause raises.
RouteMessageOf(agent, correlation_id, work_raises) ==
    ~(work_raises /\ OnHandlerError(agent, correlation_id).raised)

\* EventSubscriber._on_message of `agent` for one delivery: the message
\* class is looked up (get_routing_key_map is empty without the generated
\* classes) and the body deserialised, handle_message invokes
\* route_message, whose handler fails or not, and the delivery is acked,
\* or nacked when any of this raised.  Every failing run of the handler is
\* recorded with the delivery's tag and what its except clause did.
AgentOnMessage(agent, routing_key, correlation_id, deser_ok, fault, work_raises) ==
    /\ consuming
    /\ next_tag <= MaxDeliveries
    /\ LET tag == next_tag
           early == ~proto_available \/ GetMessageClassRaises(routing_key) \/ ~deser_ok
           r == RouteMessageOf(agent, correlation_id, work_raises)
           calls == IF early THEN <<>> ELSE HandleMessage(fault, r, r)
           raised == early \/ ~calls[Len(calls)]
           e == OnHandlerError(agent, correlation_id)
           runs == IF work_raises THEN Len(calls) ELSE 0
       IN /\ handled_messages' = handled_messages \o
                 [i \in 1..Len(calls) |->
                     [delivery_tag |-> tag, routing_key |-> routing_key,
                      correlation_id |-> correlation_id, ok |-> calls[i]]]
          /\ failures' = failures \o
                 [i \in 1..runs |->
                     [agent |-> agent, correlation_id |-> correlation_id,
                      sent |-> e.sent, raised |-> e.raised, delivery_tag |-> tag]]
          /\ published' = IF runs = 0 THEN published
                          ELSE IF runs = 1 THEN published \o e.sent
                          ELSE published \o e.sent \o e.sent
          /\ channel_log' = channel_log \o Acknowledge(tag, raised)
          /\ deliveries' = Append(deliveries,
                 [delivery_tag |-> tag, routing_key |-> routing_key,
                  correlation_id |-> correlation_id, raised |-> raised])
          /\ next_tag' = tag + 1
          /\ msglast' = [op |-> "deliver", id |-> correlation_id, arg |-> 0, returned |-> 0]
    /\ UNCHANGED <<proto_available, tracing_available, consuming, correlation_map, next_uuid,
                   issued>>

\* BaseAgent.publish_event called with a Protocol Buffer message and the
\* given correlation id (NoId for None): the id is generated when absent,
\* publisher.publish is called, and the id is returned unless that raised.
AgentPublishEvent(routing_key, correlation_id) ==
    /\ next_uuid <= MaxRequests
    /\ LET r == PublishEvent("proto", routing_key, correlation_id, next_uuid)
           id == IF correlation_id = NoId THEN next_uuid ELSE correlation_id
       IN /\ next_uuid' = IF correlation_id = NoId THEN next_uuid + 1 ELSE next_uuid
          /\ published' = published \o r.sent
          /\ msglast' = [op |-> IF r.raised THEN "publish_event_raised" ELSE "publish_event",
                         id |-> id, arg |-> 0, returned |-> IF r.raised THEN NoId ELSE id]
    /\ UNCHANGED <<proto_available, failures, tracing_available, consuming, correlation_map,
                   next_tag, channel_log, handled_messages, deliveries, issued>>

\* BaseAgent.publish_response called with a Protocol Buffer message.
AgentPublishResponse(routing_key, correlation_id) ==
    /\ Len(published) < MaxPublished
    /\ LET r == PublishResponse("proto", routing_key, correlation_id) IN
       /\ published' = published \o r.sent
       /\ msglast' = [op |-> IF r.raised THEN "publish_response_raised"
                             ELSE "publish_response",
                      id |-> correlation_id, arg |-> 0, returned |-> NoId]
    /\ UNCHANGED <<proto_available, failures, tracing_available, consuming, correlation_map,
                   next_uuid, next_tag, channel_log, handled_messages, deliveries, issued>>

(***************************************************************************)
(* monitoring/alert_engine.py: AlertEngine                                 *)
(***************************************************************************)

\* The rule identifiers and the metric names in use.
RuleIds == {"r1", "r2"}
Metrics == {"fees", "price"}

\* The operators a condition may carry: the five _check_condition knows
\* and one it does not.
Operators == {">", "<", ">=", "<=", "==", "!="}

\* Values and thresholds are counted in units of 0.005, so that the 0.01 of
\* the "==" test is two units.
EqualTolerance == 2

\* The values evaluated: below the threshold and within the tolerance of
\* it, the threshold itself, and above the threshold beyond the tolerance.
MetricValues == {RuleThreshold - 1, RuleThreshold, RuleThreshold + EqualTolerance}

AlertCondition(metric, operator, threshold, cooldown_seconds) ==
    [metric |-> metric, operator |-> operator, threshold |-> threshold,
     cooldown_seconds |-> cooldown_seconds]

AlertRule(id, condition, enabled) ==
    [id |-> id, condition |-> condition, enabled |-> enabled]

\* The rules handed to add_rule: under the first identifier an enabled
\* rule on the metric "fees" with every operator, under every identifier an
\* enabled and a disabled rule with ">=".
AlertRules ==
    { AlertRule("r1", AlertCondition("fees", operator, RuleThreshold, RuleCooldown), TRUE) :
         operator \in Operators }
    \cup { AlertRule(id, AlertCondition("fees", ">=", RuleThreshold, RuleCooldown), enabled) :
              id \in RuleIds, enabled \in BOOLEAN }

Alert(rule_id, timestamp, metric, current_value, threshold) ==
    [rule_id |-> rule_id, timestamp |-> timestamp, metric |-> metric,
     current_value |-> current_value, threshold |-> threshold]

Abs(x) == IF x < 0 THEN -x ELSE x

\* {}
EmptyDict == [x \in {} |-> 0]

\* AlertEngine._check_condition
CheckCondition(value, operator, threshold) ==
    CASE operator = ">"  -> value > threshold
      [] operator = "<"  -> value < threshold
      [] operator = ">=" -> value >= threshold
      [] operator = "<=" -> value <= threshold
      [] operator = "==" -> Abs(value - threshold) < EqualTolerance
      [] OTHER -> FALSE

InCooldownInclusive(elapsed, cooldown) == elapsed <= cooldown

\* current_time - last_alert < cooldown
InCooldown(elapsed, cooldown) == elapsed < cooldown

\* AlertEngine.__init__; last and evaluations record the last call and the
\* number of evaluate calls.
NewAlertEngine ==
    [rules |-> EmptyDict, alert_history |-> EmptyDict, last_alert_time |-> EmptyDict,
     last |-> [op |-> "none", rule_id |-> "", metric |-> "", value |-> 0, alerts |-> {}],
     evaluations |-> 0]

\* The engine after add_rule(rule).
WithRule(engine, rule) ==
    [engine EXCEPT !.rules = DictSet(@, rule.id, rule),
                   !.alert_history = DictSet(@, rule.id, <<>>)]

\* AlertEngine.add_rule
AddRule(rule) ==
    alert_engine' = [WithRule(alert_engine, rule) EXCEPT
                        !.last = [op |-> "add_rule", rule_id |-> rule.id, metric |-> "",
                                  value |-> 0, alerts |-> {}]]

\* AlertEngine.remove_rule
RemoveRule(rule_id) ==
    alert_engine' =
        [ (IF rule_id \in DOMAIN alert_engine.rules
           THEN [alert_engine EXCEPT
                    !.rules = DictDel(@, {rule_id}),
                    !.alert_history = DictDel(@, {rule_id})]
           ELSE alert_engine)
          EXCEPT !.last = [op |-> "remove_rule", rule_id |-> rule_id, metric |-> "",
                           value |-> 0, alerts |-> {}] ]

\* The body of the loop of evaluate for one rule: TRUE when the rule's
\* alert is built.
Triggers(engine, rule_id, metric, value, current_time) ==
    LET rule == engine.rules[rule_id]
    IN /\ rule.enabled
       /\ rule.condition.metric = metric
       /\ CheckCondition(value, rule.condition.operator, rule.condition.threshold)
       /\ ~ /\ rule_id \in DOMAIN engine.last_alert_time
            /\ InCooldown(current_time - engine.last_alert_time[rule_id],
                          rule.condition.cooldown_seconds)

\* AlertEngine.evaluate(metric, value), without a timestamp, at the time now.
Evaluate(metric, value) ==
    /\ alert_engine.evaluations < MaxEvaluations
    /\ LET triggered == { rule_id \in DOMAIN alert_engine.rules :
                             Triggers(alert_engine, rule_id, metric, value, now) }
           AlertOf(rule_id) ==
               Alert(rule_id, now * MsPerSecond, metric, value,
                     alert_engine.rules[rule_id].condition.threshold)
       IN alert_engine' =
            [alert_engine EXCEPT
               !.alert_history =
                   [rule_id \in DOMAIN @ |->
                       IF rule_id \in triggered
                       THEN Append(@[rule_id], AlertOf(rule_id))
                       ELSE @[rule_id]],
               !.last_alert_time =
                   [rule_id \in DOMAIN @ \cup triggered |->
                       IF rule_id \in triggered THEN now ELSE @[rule_id]],
               !.last = [op |-> "evaluate", rule_id |-> "", metric |-> metric,
                         value |-> value,
                         alerts |-> { AlertOf(rule_id) : rule_id \in triggered }],
               !.evaluations = @ + 1]

\* No rule was added and nothing was evaluated.
EngineIdle == alert_engine = NewAlertEngine

(***************************************************************************)
(* monitoring/notifier.py: NotificationDispatcher                          *)
(***************************************************************************)

\* The channel identifiers that are registered, and those send_alert is
\* asked to send to: one of them is never registered.
ChannelIds == {"mail", "hook"}
RequestedIds == ChannelIds \cup {"push"}

NotificationChannel(type, url) == [type |-> type, url |-> url]

\* The channels handed to register_channel: one of each type send_alert
\* knows, a webhook without a "url" in its config, and one of a type it
\* does not know.
NotificationChannels ==
    { NotificationChannel(type, TRUE) : type \in {"email", "webhook", "websocket", "sms", "pager"} }
    \cup { NotificationChannel("webhook", FALSE) }

\* The lists of channel ids send_alert is called with.
ChannelLists ==
    UNION { [1..n -> RequestedIds] : n \in 0..MaxChannels }

\* How one of the _send_ methods may end for a channel: the placeholders
\* log and return; _send_webhook imports httpx, returns at once without a
\* url and otherwise posts, and the import and the post may raise.
SendResults(channel) ==
    CASE channel.type \in {"email", "websocket", "sms"} -> {"logged"}
      [] channel.type = "webhook" ->
            IF channel.url THEN {"posted", "raised"} ELSE {"no_url", "raised"}
      [] OTHER -> {"unknown_type"}

AbortAfterError(rest) == <<>>

\* The channel ids the loop goes on with after a _send_ method raised: the
\* except clause is inside the loop.
ResumeAfterError(rest) == rest

\* The loop of send_alert over channels: every log it may leave, one
\* entry per channel id it came to.
RECURSIVE SendLogs(_, _)
SendLogs(channels, list) ==
    IF list = <<>> THEN {<<>>}
    ELSE LET channel_id == Head(list)
             rest == Tail(list)
         IN IF channel_id \notin DOMAIN channels
            THEN { <<[channel_id |-> channel_id, result |-> "not_found"]>> \o log :
                      log \in SendLogs(channels, rest) }
            ELSE UNION { { <<[channel_id |-> channel_id, result |-> result]>> \o log :
                              log \in SendLogs(channels,
                                               IF result = "raised"
                                               THEN ResumeAfterError(rest)
                                               ELSE rest) } :
                         result \in SendResults(channels[channel_id]) }

\* NotificationDispatcher.__init__; pc, requested and log record the last
\* call: the list send_alert was called with and what it did.
NewNotifier ==
    [channels |-> EmptyDict, pc |-> "idle", requested |-> <<>>, log |-> <<>>]

\* NotificationDispatcher.register_channel
RegisterChannel(channel_id, channel) ==
    notifier' = [channels |-> DictSet(notifier.channels, channel_id, channel),
                 pc |-> "registered", requested |-> <<>>, log |-> <<>>]

\* NotificationDispatcher.send_alert: nothing it calls outside the try
\* block raises, so it returns.
SendAlert(list) ==
    \E log \in SendLogs(notifier.channels, list) :
        notifier' = [notifier EXCEPT !.pc = "returned", !.requested = list, !.log = log]

\* No channel is registered and no alert was sent.
NotifierIdle == notifier = NewNotifier

(***************************************************************************)
(* monitoring/agent.py and monitoring/state_manager.py: rule configuration  *)
(***************************************************************************)

\* A rule-configuration message without a condition.
NoCondition == [metric |-> "", operator |-> "", threshold |-> 0, cooldown_seconds |-> 0]

\* The messages on monitoring.rule.config: every rule, and for every
\* identifier a message that carries no condition.
RuleConfigMessages ==
    AlertRules \cup { AlertRule(id, NoCondition, TRUE) : id \in RuleIds }

NoRule == [id |-> "", condition |-> NoCondition, enabled |-> FALSE]

\* MonitoringAgent._parse_rule_from_message
ParseRuleFromMessage(message) ==
    IF message.condition = NoCondition THEN NoRule ELSE message

\* MonitoringStateManager.save_rule: the value set under
\* monitoring:rule:<id>, when redis.set returns.
SaveRule(rules, rule) == DictSet(rules, rule.id, rule)

\* MonitoringAgent._handle_rule_config: add_rule, then save_rule, whose
\* redis.set may raise; the exception is logged.
HandleRuleConfig(message, set_raises) ==
    LET rule == ParseRuleFromMessage(message)
    IN IF rule # NoRule
       THEN /\ alert_engine' =
                  [WithRule(alert_engine, rule) EXCEPT
                      !.last = [op |-> "add_rule", rule_id |-> rule.id, metric |-> "",
                                value |-> 0, alerts |-> {}]]
            /\ redis_rules' = IF set_raises THEN redis_rules
                              ELSE SaveRule(redis_rules, rule)
            /\ rule_config' = [pc |-> "handled", rule |-> rule,
                               outcome |-> IF set_raises THEN "logged" ELSE "saved"]
       ELSE /\ rule_config' = [pc |-> "handled", rule |-> NoRule, outcome |-> "ignored"]
            /\ UNCHANGED <<alert_engine, redis_rules>>

\* A fresh Redis, and no rule-configuration message yet.
RuleConfigIdle ==
    /\ redis_rules = EmptyDict
    /\ rule_config = [pc |-> "idle", rule |-> NoRule, outcome |-> "none"]

\* The monitoring agent before anything is called on it.
MonIdle ==
    /\ EngineIdle
    /\ NotifierIdle
    /\ RuleConfigIdle

(***************************************************************************)
(* logging.py: the correlation id of the current context                   *)
(***************************************************************************)

\* The contexts records are logged from: a thread, or an asyncio task,
\* each with its own value of correlation_id_var.
LogContexts == 1..MaxContexts

\* The correlation ids set, and the value None of correlation_id_var.
CorrelationIds == 1..MaxIds

\* The message handlers that run one after the other in a context are
\* numbered from 1.
Handlers == 1..MaxHandlers

\* No record was emitted yet.
NoRecord == [context |-> 0, handler |-> 0, ambient |-> NoId, set_in |-> 0, json |-> NoId]

\* Import of the module: correlation_id_var has its default in every
\* context, which runs its first handler.  set_in is the handler of the
\* context that set the value the variable holds, emitted the last record.
NewLogging ==
    [correlation_id_var |-> [c \in LogContexts |-> NoId],
     handler |-> [c \in LogContexts |-> 1],
     set_in |-> [c \in LogContexts |-> 0],
     emitted |-> NoRecord]

\* JSONFormatter.format: the "correlation_id" of the JSON object, NoId when
\* it has none.  The id of the context is put in first, the record's
\* extra_fields are merged over it.
Format(correlation_id, extra_correlation_id) ==
    LET log_data == IF correlation_id # NoId THEN correlation_id ELSE NoId
    IN IF extra_correlation_id # NoId THEN extra_correlation_id ELSE log_data

\* The logging state after the context emitted a record whose extra_fields
\* carry the given "correlation_id" (NoId: none).
Emitted(l, context, extra_correlation_id) ==
    [l EXCEPT !.emitted =
        [context |-> context,
         handler |-> l.handler[context],
         ambient |-> l.correlation_id_var[context],
         set_in |-> l.set_in[context],
         json |-> Format(l.correlation_id_var[context], extra_correlation_id)]]

\* The logging state after set_correlation_id in the context.
WithCorrelationId(l, context, correlation_id) ==
    [l EXCEPT !.correlation_id_var[context] = correlation_id,
              !.set_in[context] = l.handler[context]]

\* set_correlation_id
SetCorrelationId(context, correlation_id) ==
    logging' = WithCorrelationId(logging, context, correlation_id)

\* clear_correlation_id
ClearCorrelationId(context) ==
    logging' = [logging EXCEPT !.correlation_id_var[context] = NoId,
                               !.set_in[context] = 0]

\* log_with_context, and any logger call: a record is emitted in the
\* context and formatted there.
LogWithContext(context, extra_correlation_id) ==
    logging' = Emitted(logging, context, extra_correlation_id)

\* log_message_received and log_message_sent: the id is set and a record
\* with the fields agent, message_type and event is emitted; the id stays.
LogMessageReceived(context, correlation_id) ==
    logging' = Emitted(WithCorrelationId(logging, context, correlation_id), context, NoId)

\* The handler of the context returns and the consumer calls the handler
\* of the next message in the same thread: correlation_id_var is left as
\* it is.
NextHandler(context) ==
    /\ logging.handler[context] < MaxHandlers
    /\ logging' = [logging EXCEPT !.handler[context] = @ + 1]

\* Nothing was logged.
LoggingIdle == logging = NewLogging

(***************************************************************************)
(* messaging/subscriber.py and data_retrieval/agent.py: a consumer with    *)
(* prefetch 1 and the handler work of its deliveries                       *)
(***************************************************************************)

\* The deliveries of one routing key on one queue, in the broker's order.
QueueDeliveries == 1..MaxQueued

\* The consumer of an agent whose route_message does the handler work
\* itself (scheduled = FALSE) or schedules it with asyncio.create_task, in
\* a thread with or without a running event loop.  work is where the
\* handler work of each delivery stands, settled how the delivery was
\* settled and work_at_settle where its work stood then; finished lists
\* the deliveries in the order their work completed.
NewConsumer(scheduled, loop_running) ==
    [scheduled |-> scheduled, loop_running |-> loop_running,
     delivered |-> 0,
     work |-> [n \in QueueDeliveries |-> "none"],
     settled |-> [n \in QueueDeliveries |-> "none"],
     work_at_settle |-> [n \in QueueDeliveries |-> "none"],
     finished |-> <<>>]

\* The deliveries the broker has sent and the consumer has not settled.
Unacked == { n \in QueueDeliveries : n <= consumer.delivered /\ consumer.settled[n] = "none" }

\* What route_message leaves of the handler work when it returns, or
\* "raised": a handler called in place has run to its end; create_task
\* schedules the coroutine when the thread has a running event loop and
\* raises RuntimeError when it has none.
RouteMessage(c) ==
    IF ~c.scheduled THEN "done"
    ELSE IF c.loop_running THEN "scheduled"
    ELSE "raised"

\* The broker sends the next delivery once fewer than prefetch = 1 are
\* unacked, and EventSubscriber._on_message runs for it: handle_message,
\* then basic_ack, or basic_nack when handle_message raised.
ConsumerOnMessage ==
    /\ consumer.delivered < MaxQueued
    /\ Unacked = {}
    /\ LET n == consumer.delivered + 1
           routed == RouteMessage(consumer)
           work == IF routed = "raised" THEN "none" ELSE routed
       IN consumer' =
            [consumer EXCEPT
               !.delivered = n,
               !.work[n] = work,
               !.settled[n] = IF routed = "raised" THEN "nack" ELSE "ack",
               !.work_at_settle[n] = work,
               !.finished = IF work = "done" THEN Append(@, n) ELSE @]

\* The event loop starts the task of a delivery: _handle_data_request runs
\* up to its first await.
TaskStart(n) ==
    /\ consumer.work[n] = "scheduled"
    /\ consumer' = [consumer EXCEPT !.work[n] = "running"]

\* The task of a delivery runs to its end.
TaskFinish(n) ==
    /\ consumer.work[n] = "running"
    /\ consumer' = [consumer EXCEPT !.work[n] = "done", !.finished = Append(@, n)]

\* No delivery was made.
ConsumerIdle == consumer = NewConsumer(FALSE, FALSE)

(***************************************************************************)
(* query/context_manager.py: ContextManager of several writers over a      *)
(* Redis whose reads and writes may fail                                   *)
(***************************************************************************)

\* The callers that work on the same session at once.
Writers == 1..MaxWriters

\* The field update_context is called with, beside the history.
UpdateFields == {"language"}

\* Nothing is stored under the session's key.
NoStored == [exists |-> FALSE, fields |-> {}, has_history |-> FALSE, query_history |-> <<>>]

\* {} of update_context, and the new context of add_query_to_history,
\* which has "session_id", "created_at" and an empty "query_history".
EmptyDictContext == [exists |-> TRUE, fields |-> {}, has_history |-> FALSE, query_history |-> <<>>]
FreshContext == [exists |-> TRUE, fields |-> {}, has_history |-> TRUE, query_history |-> <<>>]

\* A plausible bug: a failed read is answered with what is stored.
GetContextUnfailing(stored, get_raises) ==
    IF stored.exists THEN stored ELSE NoStored

\* get_context: the stored context, or None (NoStored) when the key is
\* missing and when redis.get raises.
GetContextOf(stored, get_raises) ==
    IF get_raises THEN NoStored
    ELSE IF stored.exists THEN stored
    ELSE NoStored

\* get_context(...) or default
OrDefault(context, default) == IF context.exists THEN context ELSE default

\* A writer that is in no operation.
IdleWriter == [pc |-> "idle", op |-> "none", arg |-> 0, field |-> "", read_failed |-> FALSE,
               context |-> NoStored]

\* No operation has ended.
NoStoreOp == [writer |-> 0, op |-> "none", read_failed |-> FALSE, outcome |-> "none",
              arg |-> 0, field |-> "", before |-> NoStored]

\* An empty Redis; saved is the value of the last setex, entries counts
\* the queries handed to add_query_to_history.
NewStore ==
    [stored |-> NoStored, saved |-> NoStored, writers |-> [w \in Writers |-> IdleWriter],
     entries |-> 0, last |-> NoStoreOp]

\* update_context, its first line: the context is read, or is {}.
UpdateContextRead(w, field, get_raises) ==
    /\ kv.writers[w].pc = "idle"
    /\ kv' = [kv EXCEPT !.writers[w] =
                [pc |-> "read", op |-> "update_context", arg |-> 0, field |-> field,
                 read_failed |-> get_raises,
                 context |-> OrDefault(GetContextOf(kv.stored, get_raises), EmptyDictContext)]]

\* add_query_to_history, its first statement: the context is read, or is
\* a new one.
AddQueryRead(w, get_raises) ==
    /\ kv.writers[w].pc = "idle"
    /\ kv.entries < MaxEntries
    /\ kv' = [kv EXCEPT !.entries = @ + 1,
                        !.writers[w] =
                [pc |-> "read", op |-> "add_query_to_history", arg |-> kv.entries + 1,
                 field |-> "", read_failed |-> get_raises,
                 context |-> OrDefault(GetContextOf(kv.stored, get_raises), FreshContext)]]

\* The context an operation hands to save_context, from the one it read.
Modified(writer) ==
    IF writer.op = "update_context"
    THEN [writer.context EXCEPT !.fields = @ \cup {writer.field}]
    ELSE [writer.context EXCEPT !.query_history = KeepLast(Append(@, writer.arg))]

\* The rest of update_context and add_query_to_history: the context read
\* is changed and save_context stores it with setex, or returns False when
\* setex raises.  context["query_history"] raises KeyError on a context
\* that has no history.
ContextWrite(w, setex_raises) ==
    LET writer == kv.writers[w]
        outcome == IF writer.op = "add_query_to_history" /\ ~writer.context.has_history
                   THEN "key_error"
                   ELSE IF setex_raises THEN "false" ELSE "true"
    IN /\ writer.pc = "read"
       /\ kv' = [kv EXCEPT
             !.stored = IF outcome = "true" THEN Modified(writer) ELSE @,
             !.saved = IF outcome = "true" THEN Modified(writer) ELSE @,
             !.writers[w] = IdleWriter,
             !.last = [writer |-> w, op |-> writer.op, read_failed |-> writer.read_failed,
                       outcome |-> outcome, arg |-> writer.arg, field |-> writer.field,
                       before |-> kv.stored]]

\* No operation was begun on the session.
StoreIdle == kv = NewStore

\* The parts that observe the agents, before anything is called on them.
ObsIdle ==
    /\ LoggingIdle
    /\ ConsumerIdle
    /\ StoreIdle

\* The parts outside the agent, before anything is called on them.
LibIdle ==
    /\ TmoIdle
    /\ BkIdle
    /\ SessionIdle
    /\ MonIdle
    /\ ObsIdle

\* The breaker, the retry wrapper and the agent after construction, for
\* the specifications that leave them alone.
CBIdle ==
    /\ cbcfg = [failure_threshold |-> 1, recovery_timeout |-> 0]
    /\ cb = NewBreaker
    /\ cblast = NoOp
    /\ opened_at = [t |-> NoTime, reset |-> FALSE]
    /\ ConcIdle
    /\ RegIdle
    /\ ConnIdle

InitCB ==
    /\ now = 0
    /\ cbcfg \in [failure_threshold : 1..MaxThreshold, recovery_timeout : 0..MaxTimeout]
    /\ cb = NewBreaker
    /\ cblast = NoOp
    /\ opened_at = [t |-> NoTime, reset |-> FALSE]
    /\ ConcIdle
    /\ RegIdle
    /\ ConnIdle
    /\ LibIdle
    /\ rt = RetryIdle(1)
    /\ NewAgent
    /\ tracing_available = TRUE
    /\ proto_available = TRUE

NextCB ==
    \/ \E outcome \in CallOutcomes, d \in 0..MaxDuration :
          CBCall(outcome, d) /\ UNCHANGED <<cbcfg, rt, libvars, concvars, regvars, connvars, msgvars>>
    \/ CBReset /\ UNCHANGED <<cbcfg, rt, libvars, concvars, regvars, connvars, msgvars>>
    \/ Tick /\ UNCHANGED <<cbvars, rt, libvars, concvars, regvars, connvars, msgvars>>

SpecCB == InitCB /\ [][NextCB]_vars

InitRetry ==
    /\ now = 0
    /\ CBIdle
    /\ LibIdle
    /\ rt \in {RetryIdle(m) : m \in 1..MaxAttempts}
    /\ NewAgent
    /\ tracing_available = TRUE
    /\ proto_available = TRUE

NextRetry ==
    \/ RetryInvoke /\ UNCHANGED <<now, cbvars, libvars, concvars, regvars, connvars, msgvars>>
    \/ \E outcome \in AttemptOutcomes :
          RetryAttempt(outcome) /\ UNCHANGED <<now, cbvars, libvars, concvars, regvars, connvars, msgvars>>
    \/ RetrySleep /\ UNCHANGED <<now, cbvars, libvars, concvars, regvars, connvars, msgvars>>

SpecRetry == InitRetry /\ [][NextRetry]_vars

\* The subscriber callback: deliveries of every kind reach a consuming agent.
InitSub ==
    /\ now = 0
    /\ CBIdle
    /\ LibIdle
    /\ rt = RetryIdle(1)
    /\ NewAgent
    /\ tracing_available \in BOOLEAN
    /\ proto_available = TRUE

NextSub ==
    \/ StartConsuming /\ UNCHANGED <<now, cbvars, rt, libvars, concvars, regvars, connvars>>
    \/ \E routing_key \in DeliveryKeys, deser_ok \in BOOLEAN,
          fault \in TracingFaults, r1 \in BOOLEAN, r2 \in BOOLEAN :
          OnMessage(routing_key, NoId, deser_ok, fault, r1, r2)
             /\ UNCHANGED <<now, cbvars, rt, libvars, concvars, regvars, connvars>>
    \/ Close /\ UNCHANGED <<now, cbvars, rt, libvars, concvars, regvars, connvars>>

SpecSub == InitSub /\ [][NextSub]_vars

\* The correlation registry: requests, their responses, explicit clears,
\* the reap and close, as time passes. A request names the routing key it
\* is published to and a reply routing key out of the agent's map; its
\* response is delivered with that reply key.
RequestKeys == {<<"test.request", "test.response">>, <<"data.request", "test.request">>}

\* The requests made: one kind is published without a context, the other
\* with one.
RequestInputs ==
    {r \in RequestKeys \X Contexts : (r[1][1] = "test.request") <=> (r[2] = NoContext)}

NextCorr ==
    \/ \E r \in RequestInputs, pub_ok \in BOOLEAN :
          PublishRequest(r[1][1], r[1][2], r[2], pub_ok) /\ UNCHANGED <<now, cbvars, rt, libvars, concvars, regvars, connvars>>
    \/ \E c \in 1..MaxRequests : ClearCorrelation(c) /\ UNCHANGED <<now, cbvars, rt, libvars, concvars, regvars, connvars>>
    \/ \E max_age_seconds \in 0..MaxAge :
          CleanupOldCorrelations(max_age_seconds) /\ UNCHANGED <<now, cbvars, rt, libvars, concvars, regvars, connvars>>
    \/ now < MaxClock /\ Tick /\ UNCHANGED <<cbvars, rt, libvars, concvars, regvars, connvars, msgvars>>
    \/ StartConsuming /\ UNCHANGED <<now, cbvars, rt, libvars, concvars, regvars, connvars>>
    \/ \E c \in DOMAIN issued :
          /\ next_tag <= MaxResponses
          /\ OnMessage(issued[c].reply_routing_key, c, TRUE, "none", TRUE, TRUE)
          /\ UNCHANGED <<now, cbvars, rt, libvars, concvars, regvars, connvars>>
    \/ Close /\ UNCHANGED <<now, cbvars, rt, libvars, concvars, regvars, connvars>>

SpecCorr == InitSub /\ [][NextCorr]_vars

\* The handlers of the chain's agents failing, with or without the generated
\* Protocol Buffer classes.
InitChain ==
    /\ now = 0
    /\ CBIdle
    /\ LibIdle
    /\ rt = RetryIdle(1)
    /\ NewAgent
    /\ tracing_available \in BOOLEAN
    /\ proto_available \in BOOLEAN

NextChain ==
    \E agent \in Agents, correlation_id \in {NoId} \cup (1..MaxRequests) :
       HandlerFails(agent, correlation_id) /\ UNCHANGED <<now, cbvars, rt, libvars, concvars, regvars, connvars>>

SpecChain == InitChain /\ [][NextChain]_vars

\* The agents consuming deliveries whose handlers fail or not, with or
\* without tracing and the generated Protocol Buffer classes.
NextAgents ==
    \/ StartConsuming /\ UNCHANGED <<now, cbvars, rt, libvars, concvars, regvars, connvars>>
    \/ \E agent \in ConsumingAgents, routing_key \in DeliveryKeys,
          correlation_id \in {NoId, 1}, deser_ok \in BOOLEAN,
          fault \in TracingFaults, work_raises \in BOOLEAN :
          AgentOnMessage(agent, routing_key, correlation_id, deser_ok, fault, work_raises)
             /\ UNCHANGED <<now, cbvars, rt, libvars, concvars, regvars, connvars>>

SpecAgents == InitChain /\ [][NextAgents]_vars

\* One breaker shared by concurrent callers.
InitConc ==
    /\ now = 0
    /\ cbcfg \in [failure_threshold : 1..MaxThreshold, recovery_timeout : 0..MaxTimeout]
    /\ cb = NewBreaker
    /\ cblast = NoOp
    /\ opened_at = [t |-> NoTime, reset |-> FALSE]
    /\ ConcIdle
    /\ RegIdle
    /\ ConnIdle
    /\ LibIdle
    /\ rt = RetryIdle(1)
    /\ NewAgent
    /\ tracing_available = TRUE
    /\ proto_available = TRUE

NextConc ==
    \/ \E c \in Callers : ConcEnter(c) /\ UNCHANGED <<rt, libvars, regvars, connvars, msgvars>>
    \/ \E c \in Callers : ConcSucceed(c) /\ UNCHANGED <<rt, libvars, regvars, connvars, msgvars>>
    \/ \E c \in Callers : ConcFailRead(c) /\ UNCHANGED <<rt, libvars, regvars, connvars, msgvars>>
    \/ \E c \in Callers : ConcFailWrite(c) /\ UNCHANGED <<rt, libvars, regvars, connvars, msgvars>>
    \/ ConcTick /\ UNCHANGED <<rt, libvars, regvars, connvars, msgvars>>

SpecConc == InitConc /\ [][NextConc]_vars

\* The correlation registry used by threads that publish requests, clear
\* correlations and reap old ones with no lock between them.
NextReg ==
    \/ \E r \in RequestInputs :
          PublishRequest(r[1][1], r[1][2], r[2], TRUE)
             /\ UNCHANGED <<now, cbvars, rt, libvars, concvars, regvars, connvars>>
    \/ \E max_age_seconds \in 0..MaxAge :
          CleanupScan(max_age_seconds) /\ UNCHANGED <<now, cbvars, rt, libvars, concvars, connvars>>
    \/ CleanupDelete /\ UNCHANGED <<now, cbvars, rt, libvars, concvars, connvars>>
    \/ CleanupReturn /\ UNCHANGED <<now, cbvars, rt, libvars, concvars, connvars>>
    \/ \E c \in 1..MaxRequests :
          ClearCheck(c) /\ UNCHANGED <<now, cbvars, rt, libvars, concvars, connvars>>
    \/ ClearDelete /\ UNCHANGED <<now, cbvars, rt, libvars, concvars, connvars>>
    \/ Tick /\ UNCHANGED <<cbvars, rt, libvars, concvars, regvars, connvars, msgvars>>

SpecReg == InitSub /\ [][NextReg]_vars

\* One caller uses the pool: connect() runs to its end before anything
\* else does, and connections are lost at any time.
Connecting == {c \in ConnCallers : connecting[c].pc \in {"attempting", "sleeping"}}

InitPool ==
    /\ now = 0
    /\ cbcfg = [failure_threshold |-> 1, recovery_timeout |-> 0]
    /\ cb = NewBreaker
    /\ cblast = NoOp
    /\ opened_at = [t |-> NoTime, reset |-> FALSE]
    /\ ConcIdle
    /\ RegIdle
    /\ \E p \in Pools : NewPool(p)
    /\ LibIdle
    /\ rt = RetryIdle(1)
    /\ NewAgent
    /\ tracing_available = TRUE
    /\ proto_available = TRUE

NextConnect ==
    \/ ConnectEnter(1) /\ UNCHANGED <<now, cbvars, rt, libvars, concvars, regvars, msgvars>>
    \/ \E result \in AttemptResults :
          ConnectAttempt(1, result)
             /\ UNCHANGED <<now, cbvars, rt, libvars, concvars, regvars, msgvars>>
    \/ ConnectSleep(1) /\ UNCHANGED <<now, cbvars, rt, libvars, concvars, regvars, msgvars>>
    \/ \E i \in OpenConns :
          ConnectionLost(i) /\ UNCHANGED <<now, cbvars, rt, libvars, concvars, regvars, msgvars>>
    \/ Connecting = {} /\ PoolClose
          /\ UNCHANGED <<now, cbvars, rt, libvars, concvars, regvars, msgvars>>

SpecConnect == InitPool /\ [][NextConnect]_vars

\* Several callers and a subscriber use the pool; no lock orders them.
NextPool ==
    \/ \E c \in ConnCallers :
          ConnectEnter(c) /\ UNCHANGED <<now, cbvars, rt, libvars, concvars, regvars, msgvars>>
    \/ \E c \in ConnCallers, result \in AttemptResults :
          ConnectAttempt(c, result)
             /\ UNCHANGED <<now, cbvars, rt, libvars, concvars, regvars, msgvars>>
    \/ \E c \in ConnCallers :
          ConnectSleep(c) /\ UNCHANGED <<now, cbvars, rt, libvars, concvars, regvars, msgvars>>
    \/ \E i \in OpenConns :
          ConnectionLost(i) /\ UNCHANGED <<now, cbvars, rt, libvars, concvars, regvars, msgvars>>
    \/ PoolClose /\ UNCHANGED <<now, cbvars, rt, libvars, concvars, regvars, msgvars>>
    \/ SubscriberInit /\ UNCHANGED <<now, cbvars, rt, libvars, concvars, regvars, msgvars>>
    \/ SubscriberStartConsuming
          /\ UNCHANGED <<now, cbvars, rt, libvars, concvars, regvars, msgvars>>

SpecPool == InitPool /\ [][NextPool]_vars

\* An agent over its pool: it is constructed, consumes, handles deliveries
\* while its consumer is registered, loses connections and is closed.
NextShutdown ==
    \/ SubscriberInit /\ UNCHANGED <<now, cbvars, rt, libvars, concvars, regvars, msgvars>>
    \/ StartConsuming /\ SubscriberStartConsuming
          /\ UNCHANGED <<now, cbvars, rt, libvars, concvars, regvars>>
    \/ \E routing_key \in DeliveryKeys, r1 \in BOOLEAN :
          /\ subscriber.consuming_on # NoConn
          /\ OnMessage(routing_key, NoId, TRUE, "none", r1, r1)
          /\ UNCHANGED <<now, cbvars, rt, libvars, concvars, regvars, connvars>>
    \/ \E i \in OpenConns :
          ConnectionLost(i) /\ UNCHANGED <<now, cbvars, rt, libvars, concvars, regvars, msgvars>>
    \/ \E stop_raises \in BOOLEAN :
          AgentShutdown(stop_raises) /\ UNCHANGED <<now, cbvars, rt, libvars, concvars, regvars>>

SpecShutdown == InitSub /\ [][NextShutdown]_vars

\* One call of withTimeout or withTimeoutAsync with inputs drawn at the start.
InitTimeout ==
    /\ now = 0
    /\ CBIdle
    /\ rt = RetryIdle(1)
    /\ NewAgent
    /\ tracing_available = TRUE
    /\ proto_available = TRUE
    /\ \E i \in TimeoutInputs : tmo = TimeoutIdle(i)
    /\ BkIdle
    /\ SessionIdle
    /\ MonIdle
    /\ ObsIdle

NextTimeout ==
    \/ CallWithTimeout
          /\ UNCHANGED <<bk, session, monvars, obsvars, now, cbvars, rt, concvars, regvars, connvars, msgvars>>
    \/ AlarmGoesOff
          /\ UNCHANGED <<bk, session, monvars, obsvars, now, cbvars, rt, concvars, regvars, connvars, msgvars>>

SpecTimeout == InitTimeout /\ [][NextTimeout]_vars

\* Functions decorated by retry() whose attempts fail with retryable
\* errors, or succeed.
InitBackoff ==
    /\ now = 0
    /\ CBIdle
    /\ rt = RetryIdle(1)
    /\ NewAgent
    /\ tracing_available = TRUE
    /\ proto_available = TRUE
    /\ TmoIdle
    /\ SessionIdle
    /\ MonIdle
    /\ ObsIdle
    /\ \E config \in RetryConfigs : bk = BackoffIdle(config)

NextBackoff ==
    \E ok \in BOOLEAN :
       BackoffAttempt(ok)
          /\ UNCHANGED <<now, cbvars, rt, concvars, regvars, connvars, msgvars>>

SpecBackoff == InitBackoff /\ [][NextBackoff]_vars

\* An agent that publishes events, responses and requests and clears
\* correlations.
NextPublish ==
    \/ \E routing_key \in RoutingKeyMap, correlation_id \in {NoId} \cup (1..MaxRequests) :
          AgentPublishEvent(routing_key, correlation_id)
             /\ UNCHANGED <<now, cbvars, rt, libvars, concvars, regvars, connvars>>
    \/ \E routing_key \in RoutingKeyMap, correlation_id \in 1..MaxRequests :
          AgentPublishResponse(routing_key, correlation_id)
             /\ UNCHANGED <<now, cbvars, rt, libvars, concvars, regvars, connvars>>
    \/ \E r \in RequestInputs :
          PublishRequest(r[1][1], r[1][2], r[2], TRUE)
             /\ UNCHANGED <<now, cbvars, rt, libvars, concvars, regvars, connvars>>
    \/ \E c \in 1..MaxRequests :
          ClearCorrelation(c)
             /\ UNCHANGED <<now, cbvars, rt, libvars, concvars, regvars, connvars>>

SpecPublish == InitSub /\ [][NextPublish]_vars

\* A long conversation in one session: queries are added, the context is
\* read and updated, and the clock ticks.
NextHistory ==
    \/ AddQueryToHistory(PlainKind)
          /\ UNCHANGED <<now, cbvars, rt, tmo, bk, monvars, obsvars, concvars, regvars, connvars, msgvars>>
    \/ GetContext
          /\ UNCHANGED <<now, cbvars, rt, tmo, bk, monvars, obsvars, concvars, regvars, connvars, msgvars>>
    \/ UpdateContext
          /\ UNCHANGED <<now, cbvars, rt, tmo, bk, monvars, obsvars, concvars, regvars, connvars, msgvars>>
    \/ ExtendTtl
          /\ UNCHANGED <<now, cbvars, rt, tmo, bk, monvars, obsvars, concvars, regvars, connvars, msgvars>>
    \/ SessionTick
          /\ UNCHANGED <<now, cbvars, rt, tmo, bk, monvars, obsvars, concvars, regvars, connvars, msgvars>>

SpecHistory == InitSub /\ [][NextHistory]_vars

\* Short conversations of queries of every kind, and the context
\* extracted from them.
NextExtract ==
    \/ \E kind \in QueryKinds :
          /\ session.count < MaxExtractQueries
          /\ AddQueryToHistory(kind)
          /\ UNCHANGED <<now, cbvars, rt, tmo, bk, monvars, obsvars, concvars, regvars, connvars, msgvars>>
    \/ ExtractContextForQuery
          /\ UNCHANGED <<now, cbvars, rt, tmo, bk, monvars, obsvars, concvars, regvars, connvars, msgvars>>

SpecExtract == InitSub /\ [][NextExtract]_vars

\* An alert engine whose rules are added, replaced and removed while
\* metrics are evaluated and time passes.
NextAlerts ==
    \/ \E rule \in AlertRules :
          AddRule(rule)
             /\ UNCHANGED <<now, cbvars, rt, tmo, bk, session, notifier, redis_rules,
                            rule_config, obsvars, concvars, regvars, connvars, msgvars>>
    \/ \E rule_id \in RuleIds :
          RemoveRule(rule_id)
             /\ UNCHANGED <<now, cbvars, rt, tmo, bk, session, notifier, redis_rules,
                            rule_config, obsvars, concvars, regvars, connvars, msgvars>>
    \/ \E metric \in Metrics, value \in MetricValues :
          Evaluate(metric, value)
             /\ UNCHANGED <<now, cbvars, rt, tmo, bk, session, notifier, redis_rules,
                            rule_config, obsvars, concvars, regvars, connvars, msgvars>>
    \/ Tick /\ UNCHANGED <<cbvars, rt, libvars, concvars, regvars, connvars, msgvars>>

SpecAlerts == InitSub /\ [][NextAlerts]_vars

\* A dispatcher on which channels are registered and through which alerts
\* are sent.
NextNotify ==
    \/ \E channel_id \in ChannelIds, channel \in NotificationChannels :
          RegisterChannel(channel_id, channel)
             /\ UNCHANGED <<now, cbvars, rt, tmo, bk, session, alert_engine, redis_rules,
                            rule_config, obsvars, concvars, regvars, connvars, msgvars>>
    \/ \E list \in ChannelLists :
          SendAlert(list)
             /\ UNCHANGED <<now, cbvars, rt, tmo, bk, session, alert_engine, redis_rules,
                            rule_config, obsvars, concvars, regvars, connvars, msgvars>>

SpecNotify == InitSub /\ [][NextNotify]_vars

\* A monitoring agent that handles rule-configuration messages over a
\* Redis that may fail.
NextRuleConfig ==
    \E message \in RuleConfigMessages, set_raises \in BOOLEAN :
       HandleRuleConfig(message, set_raises)
          /\ UNCHANGED <<now, cbvars, rt, tmo, bk, session, notifier, obsvars,
                         concvars, regvars, connvars, msgvars>>

SpecRuleConfig == InitSub /\ [][NextRuleConfig]_vars

\* Contexts that set and clear the correlation id and log, while the
\* handlers of successive messages run in them.
NextLogging ==
    \/ \E context \in LogContexts, correlation_id \in CorrelationIds :
          SetCorrelationId(context, correlation_id)
             /\ UNCHANGED <<now, cbvars, rt, tmo, bk, session, monvars, consumer, kv,
                            concvars, regvars, connvars, msgvars>>
    \/ \E context \in LogContexts :
          ClearCorrelationId(context)
             /\ UNCHANGED <<now, cbvars, rt, tmo, bk, session, monvars, consumer, kv,
                            concvars, regvars, connvars, msgvars>>
    \/ \E context \in LogContexts, extra_correlation_id \in {NoId} \cup CorrelationIds :
          LogWithContext(context, extra_correlation_id)
             /\ UNCHANGED <<now, cbvars, rt, tmo, bk, session, monvars, consumer, kv,
                            concvars, regvars, connvars, msgvars>>
    \/ \E context \in LogContexts, correlation_id \in CorrelationIds :
          LogMessageReceived(context, correlation_id)
             /\ UNCHANGED <<now, cbvars, rt, tmo, bk, session, monvars, consumer, kv,
                            concvars, regvars, connvars, msgvars>>
    \/ \E context \in LogContexts :
          NextHandler(context)
             /\ UNCHANGED <<now, cbvars, rt, tmo, bk, session, monvars, consumer, kv,
                            concvars, regvars, connvars, msgvars>>

SpecLogging == InitSub /\ [][NextLogging]_vars

\* A consumer with prefetch 1 of an agent that handles in place or
\* schedules its handler, and the event loop that runs the tasks.
InitConsumer ==
    /\ now = 0
    /\ CBIdle
    /\ rt = RetryIdle(1)
    /\ NewAgent
    /\ tracing_available = TRUE
    /\ proto_available = TRUE
    /\ TmoIdle
    /\ BkIdle
    /\ SessionIdle
    /\ MonIdle
    /\ LoggingIdle
    /\ StoreIdle
    /\ \E scheduled \in BOOLEAN, loop_running \in BOOLEAN :
          consumer = NewConsumer(scheduled, loop_running)

NextConsumer ==
    \/ ConsumerOnMessage
          /\ UNCHANGED <<now, cbvars, rt, tmo, bk, session, monvars, logging, kv,
                         concvars, regvars, connvars, msgvars>>
    \/ \E n \in QueueDeliveries :
          TaskStart(n)
             /\ UNCHANGED <<now, cbvars, rt, tmo, bk, session, monvars, logging, kv,
                            concvars, regvars, connvars, msgvars>>
    \/ \E n \in QueueDeliveries :
          TaskFinish(n)
             /\ UNCHANGED <<now, cbvars, rt, tmo, bk, session, monvars, logging, kv,
                            concvars, regvars, connvars, msgvars>>

SpecConsumer == InitConsumer /\ [][NextConsumer]_vars

\* Writers that update the context of one session and add queries to
\* it, their reads and writes interleaved, over a Redis that may fail.
NextStore ==
    \/ \E w \in Writers, field \in UpdateFields, get_raises \in BOOLEAN :
          UpdateContextRead(w, field, get_raises)
             /\ UNCHANGED <<now, cbvars, rt, tmo, bk, session, monvars, logging, consumer,
                            concvars, regvars, connvars, msgvars>>
    \/ \E w \in Writers, get_raises \in BOOLEAN :
          AddQueryRead(w, get_raises)
             /\ UNCHANGED <<now, cbvars, rt, tmo, bk, session, monvars, logging, consumer,
                            concvars, regvars, connvars, msgvars>>
    \/ \E w \in Writers, setex_raises \in BOOLEAN :
          ContextWrite(w, setex_raises)
             /\ UNCHANGED <<now, cbvars, rt, tmo, bk, session, monvars, logging, consumer,
                            concvars, regvars, connvars, msgvars>>

SpecStore == InitSub /\ [][NextStore]_vars

\* Requests whose publish succeeds or raises; the callers clear the
\* correlations whose ids they were given, the registry is reaped and the
\* agent closed, as time passes.
NextRequest ==
    \/ \E r \in RequestInputs, pub_ok \in BOOLEAN :
          PublishRequest(r[1][1], r[1][2], r[2], pub_ok)
             /\ UNCHANGED <<now, cbvars, rt, libvars, concvars, regvars, connvars>>
    \/ \E c \in DOMAIN issued :
          ClearCorrelation(c)
             /\ UNCHANGED <<now, cbvars, rt, libvars, concvars, regvars, connvars>>
    \/ \E max_age_seconds \in 0..MaxAge :
          CleanupOldCorrelations(max_age_seconds)
             /\ UNCHANGED <<now, cbvars, rt, libvars, concvars, regvars, connvars>>
    \/ now < MaxClock /\ Tick
          /\ UNCHANGED <<cbvars, rt, libvars, concvars, regvars, connvars, msgvars>>
    \/ Close /\ UNCHANGED <<now, cbvars, rt, libvars, concvars, regvars, connvars>>

SpecRequest == InitSub /\ [][NextRequest]_vars

\* SpecCB under the scheduling the claim about recovery assumes: time keeps
\* passing and calls keep arriving.
CBSomeCall ==
    \E outcome \in CallOutcomes, d \in 0..MaxDuration :
        CBCall(outcome, d) /\ UNCHANGED <<cbcfg, rt, libvars, concvars, regvars, connvars, msgvars>>

SpecCBFair ==
    /\ SpecCB
    /\ WF_vars(Tick /\ UNCHANGED <<cbvars, rt, libvars, concvars, regvars, connvars, msgvars>>)
    /\ WF_vars(CBSomeCall)

(***************************************************************************)
(* Claims about the circuit breaker, checked under SpecCB.                 *)
(***************************************************************************)

\* The last operation was a call made inside the recovery window of the last
\* opening of the breaker: at a time in [t, t + recovery_timeout), t being
\* the time the breaker last became OPEN before the call began.
CallInOpenWindow ==
    /\ cblast.op = "call"
    /\ cblast.opened.t # NoTime
    /\ cblast.at >= cblast.opened.t
    /\ cblast.at < cblast.opened.t + cbcfg.recovery_timeout

\* C3 as stated: once the breaker has become OPEN at time t, every call made
\* in [t, t + recovery_timeout) fails fast, the wrapped function is not
\* invoked and the breaker stays OPEN.
C3_Original_FailFastInWindow ==
    CallInOpenWindow =>
        /\ cblast.outcome = "rejected"
        /\ ~cblast.invoked
        /\ cb.state = OPEN

\* C3 (amended): once the breaker has become OPEN at time t, every call made
\* in [t, t + recovery_timeout) fails fast with the 'service unavailable'
\* error, does not invoke the wrapped function and leaves the breaker OPEN
\* and unchanged, provided reset() has not been called since time t.
C3_FailFastInWindowUnlessReset ==
    (CallInOpenWindow /\ ~cblast.opened.reset) =>
        /\ cblast.outcome = "rejected"
        /\ ~cblast.invoked
        /\ cb.state = OPEN
        /\ cb = cblast.pre

\* C3, its case: a call made strictly after the opening and inside the
\* window was rejected.
C3_Witness ==
    /\ CallInOpenWindow
    /\ ~cblast.opened.reset
    /\ cblast.at > cblast.opened.t
    /\ cblast.outcome = "rejected"

\* The safety half of C4: a call made while the breaker is OPEN and at least
\* recovery_timeout after the last failure takes the breaker to HALF_OPEN
\* and invokes the wrapped function; it is not rejected.
HalfOpenAfterTimeout ==
    ( /\ cblast.op = "call"
      /\ cblast.pre.state = OPEN
      /\ cblast.pre.last_failure_time # NoTime
      /\ cblast.at - cblast.pre.last_failure_time >= cbcfg.recovery_timeout )
    => /\ cblast.probe.state = HALF_OPEN
       /\ cblast.invoked
       /\ cblast.outcome # "rejected"

\* The liveness half of C4: when time keeps passing and calls keep arriving,
\* an OPEN episode whose recovery timeout ends within the clock's range
\* ends: the breaker leaves OPEN, or a probe fails and opens a new episode.
OpenEpisodeEnds ==
    \A n \in 0..MaxFailureCount :
        ( /\ cb.state = OPEN
          /\ cb.failure_count = n
          /\ cb.last_failure_time + cbcfg.recovery_timeout <= MaxTime )
        ~> (cb.state # OPEN \/ cb.failure_count # n)

\* C4: when the breaker is OPEN and now - last_failure_time >= recovery_timeout,
\* the next call takes the breaker to HALF_OPEN and invokes the wrapped
\* function instead of failing fast; so, with time passing and calls
\* arriving, no OPEN episode lasts forever.
C4_RecoveryAfterTimeout ==
    /\ []HalfOpenAfterTimeout
    /\ OpenEpisodeEnds

\* C4, its case: a call made exactly recovery_timeout (at least one second)
\* after the last failure probed the service in HALF_OPEN.
C4_Witness ==
    /\ cblast.op = "call"
    /\ cblast.pre.state = OPEN
    /\ cbcfg.recovery_timeout >= 1
    /\ cblast.at - cblast.pre.last_failure_time = cbcfg.recovery_timeout
    /\ cblast.probe.state = HALF_OPEN
    /\ cblast.invoked

\* C5: in CLOSED a failed call adds one to failure_count, a successful call
\* sets it to 0, and the breaker goes to OPEN, recording the time of the
\* failure, exactly when failure_count reaches failure_threshold; a CLOSED
\* breaker therefore always has failure_count < failure_threshold.
C5_ClosedCountsFailures ==
    /\ cb.state = CLOSED => cb.failure_count < cbcfg.failure_threshold
    /\ (cblast.op = "call" /\ cblast.probe.state = CLOSED /\ cblast.outcome = "failure")
       => /\ cb.failure_count = cblast.pre.failure_count + 1
          /\ cb.state = OPEN <=> cb.failure_count = cbcfg.failure_threshold
          /\ cb.state # OPEN => cb.state = CLOSED
          /\ cb.state = OPEN => cb.last_failure_time = cblast.end
    /\ (cblast.op = "call" /\ cblast.probe.state = CLOSED /\ cblast.outcome = "success")
       => /\ cb.failure_count = 0
          /\ cb.state = CLOSED

\* C5, its case: with a threshold of two, the second failure in a row opened
\* the breaker.
C5_Witness ==
    /\ cbcfg.failure_threshold = 2
    /\ cblast.op = "call"
    /\ cblast.probe.state = CLOSED
    /\ cblast.outcome = "failure"
    /\ cblast.pre.failure_count = 1
    /\ cb.state = OPEN

\* C6: in HALF_OPEN a failed call returns the breaker to OPEN and records the
\* time of the failure; a successful call adds one to the success count, and
\* the breaker goes to CLOSED with failure_count = 0 exactly when that count
\* reaches 2; the count starts at 0 each time HALF_OPEN is entered.
C6_HalfOpenRecovery ==
    /\ (cblast.op = "call" /\ cblast.pre.state = OPEN /\ cblast.probe.state = HALF_OPEN)
       => cblast.probe.success_count = 0
    /\ (cblast.op = "call" /\ cblast.probe.state = HALF_OPEN /\ cblast.outcome = "failure")
       => /\ cb.state = OPEN
          /\ cb.last_failure_time = cblast.end
    /\ (cblast.op = "call" /\ cblast.probe.state = HALF_OPEN /\ cblast.outcome = "success")
       => /\ cb.success_count = cblast.probe.success_count + 1
          /\ cb.state = CLOSED <=> cb.success_count = 2
          /\ cb.state # CLOSED => cb.state = HALF_OPEN
          /\ cb.state = CLOSED => cb.failure_count = 0

\* C6, its case: the second success of a HALF_OPEN episode closed the
\* breaker, whose failure_count had been positive.
C6_Witness ==
    /\ cblast.op = "call"
    /\ cblast.pre.state = HALF_OPEN
    /\ cblast.pre.failure_count > 0
    /\ cblast.outcome = "success"
    /\ cb.state = CLOSED
    /\ cb.failure_count = 0

(***************************************************************************)
(* Claims about retry, checked under SpecRetry.                            *)
(***************************************************************************)

\* An error the wrapper retries: an instance of retryable_exceptions that is
\* not a ChimeraError whose retryable flag is false.
IsRetryable(e) == e.caught /\ ~(e.chimera /\ ~e.retryable)

\* The calls of the wrapped function that raised a non-retryable error.
NonRetryableCalls ==
    {i \in 1..Len(rt.outcomes) :
        ~rt.outcomes[i].ok /\ ~IsRetryable(rt.outcomes[i].error)}

\* C7 as stated: when the wrapped function raises a non-retryable error, the
\* error is raised at once, the wrapped function has been called exactly
\* once and no backoff sleep has occurred.
C7_Original_CalledExactlyOnce ==
    NonRetryableCalls # {} =>
        /\ rt.pc = "raised"
        /\ rt.calls = 1
        /\ rt.slept = <<>>

\* C7 (amended): when the wrapped function raises a non-retryable error (one
\* outside retryable_exceptions, or a ChimeraError whose retryable flag is
\* false), the wrapper raises that error at once: no call and no sleep
\* follows it; the function has been called exactly once, with no sleep,
\* when the first attempt raised it, and once more than the wrapper slept
\* when earlier attempts raised retryable errors.
C7_NonRetryableRaisedAtOnce ==
    \A i \in NonRetryableCalls :
        /\ i = Len(rt.outcomes)
        /\ rt.calls = i
        /\ rt.pc = "raised"
        /\ rt.raised = [n |-> i, error |-> rt.outcomes[i].error]
        /\ Len(rt.slept) = i - 1
        /\ i = 1 => (rt.calls = 1 /\ rt.slept = <<>>)

\* C7, its case: with more attempts allowed, the first attempt raised a
\* ChimeraError whose retryable flag is false, and the wrapper raised it.
C7_Witness ==
    /\ rt.max_attempts >= 2
    /\ rt.outcomes = <<Raises(ChimeraFatal)>>
    /\ rt.pc = "raised"
    /\ rt.calls = 1

\* C8: the wrapped function is called at most max_attempts times; a
\* successful attempt ends the invocation, which returns its result with no
\* further call; when all max_attempts attempts raise retryable errors the
\* wrapper has slept exactly max_attempts - 1 times, never after the last
\* attempt, and raises the last error.
C8_AtMostMaxAttempts ==
    /\ rt.calls = Len(rt.outcomes)
    /\ rt.calls <= rt.max_attempts
    /\ Len(rt.slept) <= rt.max_attempts - 1
    /\ rt.pc = "sleep" => rt.calls < rt.max_attempts
    /\ \A i \in 1..Len(rt.outcomes) :
          rt.outcomes[i].ok =>
              /\ i = Len(rt.outcomes)
              /\ rt.pc = "returned"
              /\ rt.result = i
              /\ Len(rt.slept) = i - 1
    /\ rt.pc = "returned" => rt.calls >= 1 /\ rt.outcomes[rt.calls].ok
    /\ ( /\ Len(rt.outcomes) = rt.max_attempts
         /\ \A i \in 1..Len(rt.outcomes) :
               ~rt.outcomes[i].ok /\ IsRetryable(rt.outcomes[i].error) )
       => /\ rt.pc = "raised"
          /\ rt.calls = rt.max_attempts
          /\ Len(rt.slept) = rt.max_attempts - 1
          /\ rt.raised = [n |-> rt.max_attempts,
                          error |-> rt.outcomes[rt.max_attempts].error]

\* C8, its case: three attempts, each raising a retryable error, two sleeps,
\* and the third error raised.
C8_Witness ==
    /\ rt.max_attempts = 3
    /\ rt.calls = 3
    /\ \A i \in 1..3 : ~rt.outcomes[i].ok /\ IsRetryable(rt.outcomes[i].error)
    /\ rt.slept = <<0, 1>>
    /\ rt.pc = "raised"
    /\ rt.raised.n = 3

(***************************************************************************)
(* The subscriber callback and the correlation registry                    *)
(***************************************************************************)

\* The positions in channel_log of the calls made for a delivery tag.
CallsFor(tag) == {i \in 1..Len(channel_log) : channel_log[i].delivery_tag = tag}

\* The invocations of route_message made for a delivery tag.
RoutedFor(tag) == {i \in 1..Len(handled_messages) : handled_messages[i].delivery_tag = tag}

\* C1: every delivery received by the subscriber has exactly one call on the
\* channel for its delivery tag: basic_ack when handling (get_message_class,
\* deserialisation and handle_message) returned, basic_nack with
\* requeue=False when it raised; and no call is made for a tag that was not
\* delivered.
C1_ExactlyOneAcknowledgement ==
    /\ \A d \in 1..Len(deliveries) :
          /\ Cardinality(CallsFor(deliveries[d].delivery_tag)) = 1
          /\ \A i \in CallsFor(deliveries[d].delivery_tag) :
                IF deliveries[d].raised
                THEN channel_log[i].op = "nack" /\ channel_log[i].requeue = FALSE
                ELSE channel_log[i].op = "ack"
    /\ \A i \in 1..Len(channel_log) :
          \E d \in 1..Len(deliveries) :
             deliveries[d].delivery_tag = channel_log[i].delivery_tag

\* One delivery was handled and acknowledged, another failed in
\* route_message and was rejected.
C1_Witness ==
    /\ \E d \in 1..Len(deliveries) :
          /\ ~deliveries[d].raised
          /\ \E i \in CallsFor(deliveries[d].delivery_tag) : channel_log[i].op = "ack"
    /\ \E d \in 1..Len(deliveries) :
          /\ deliveries[d].raised
          /\ RoutedFor(deliveries[d].delivery_tag) # {}
          /\ \E i \in CallsFor(deliveries[d].delivery_tag) : channel_log[i].op = "nack"

\* C2: a delivery whose routing key is not in the routing-key map fails:
\* it is rejected with basic_nack and requeue=False, it is not acknowledged,
\* some call is made for it, and route_message is not invoked for it.
C2_UnknownKeyRejected ==
    \A d \in 1..Len(deliveries) :
       deliveries[d].routing_key \notin RoutingKeyMap =>
          /\ deliveries[d].raised
          /\ CallsFor(deliveries[d].delivery_tag) # {}
          /\ \A i \in CallsFor(deliveries[d].delivery_tag) :
                channel_log[i].op = "nack" /\ channel_log[i].requeue = FALSE
          /\ RoutedFor(deliveries[d].delivery_tag) = {}

\* A delivery with an unmapped routing key was received and rejected, and a
\* delivery with a mapped key was routed.
C2_Witness ==
    /\ \E d \in 1..Len(deliveries) :
          /\ deliveries[d].routing_key \notin RoutingKeyMap
          /\ \E i \in CallsFor(deliveries[d].delivery_tag) : channel_log[i].op = "nack"
    /\ \E d \in 1..Len(deliveries) :
          /\ deliveries[d].routing_key \in RoutingKeyMap
          /\ RoutedFor(deliveries[d].delivery_tag) # {}

C10_Original_RemovedOnResponse ==
    \A d \in 1..Len(deliveries) :
       (~deliveries[d].raised /\ deliveries[d].correlation_id \in DOMAIN issued)
          => deliveries[d].correlation_id \notin DOMAIN correlation_map

\* C10, amended: an entry leaves the registry only in a step of
\* clear_correlation for its id, of cleanup_old_correlations when its
\* timestamp is in the past, or of close; receiving the response removes
\* nothing.
C10_RemovedOnlyByClearReapClose ==
    [][ \A c \in DOMAIN correlation_map :
           c \notin DOMAIN correlation_map' =>
              \/ msglast'.op = "clear_correlation" /\ msglast'.id = c
              \/ /\ msglast'.op = "cleanup_old_correlations"
                 /\ correlation_map[c].timestamp < GetTimestamp
              \/ msglast'.op = "close" ]_vars

\* The response to request c was handled, the entry stayed, and an explicit
\* clear_correlation(c) has just removed it while another entry remains.
C10_Witness ==
    /\ msglast.op = "clear_correlation"
    /\ msglast.id \in DOMAIN issued
    /\ msglast.id \notin DOMAIN correlation_map
    /\ \E d \in 1..Len(deliveries) :
          deliveries[d].correlation_id = msglast.id /\ ~deliveries[d].raised
    /\ DOMAIN correlation_map # {}

\* C11: a step of cleanup_old_correlations(age) removes exactly the entries
\* whose timestamp is below now - age (in milliseconds), leaves every other
\* entry as it was, and returns the number of entries removed; called again
\* at once with the same age it would remove nothing and return 0.
C11_CleanupExactAndIdempotent ==
    [][ (msgvars' # msgvars /\ msglast'.op = "cleanup_old_correlations") =>
          LET age == msglast'.arg
              old == {c \in DOMAIN correlation_map :
                        correlation_map[c].timestamp
                           < (now * MsPerSecond) - (age * MsPerSecond)}
              old_after == {c \in DOMAIN correlation_map' :
                        correlation_map'[c].timestamp
                           < (now' * MsPerSecond) - (age * MsPerSecond)}
          IN /\ DOMAIN correlation_map' = DOMAIN correlation_map \ old
             /\ \A c \in DOMAIN correlation_map' :
                   correlation_map'[c] = correlation_map[c]
             /\ msglast'.returned = Cardinality(old)
             /\ old_after = {}
             /\ Cardinality(old_after) = 0 ]_vars

\* The scaled example of C11: of two entries, the older one has just been
\* reaped and the newer one, exactly as old as the age given, remains; the
\* call returned 1.
C11_Witness ==
    /\ msglast.op = "cleanup_old_correlations"
    /\ msglast.returned = 1
    /\ Cardinality(DOMAIN correlation_map) = 1
    /\ \A c \in DOMAIN correlation_map :
          correlation_map[c].timestamp = GetTimestamp - (msglast.arg * MsPerSecond)

\* C12 as stated: for every delivery passed to handle_message, route_message
\* is invoked exactly once, whether it returns or raises, and handle_message
\* raises exactly when that one invocation raised.
C12_Original_RoutedExactlyOnce ==
    \A d \in 1..Len(deliveries) :
       RoutedFor(deliveries[d].delivery_tag) # {} =>
          /\ Cardinality(RoutedFor(deliveries[d].delivery_tag)) = 1
          /\ \A i \in RoutedFor(deliveries[d].delivery_tag) :
                handled_messages[i].ok = ~deliveries[d].raised

\* The error routing keys of the chain.
ErrorKeys == {"query.error", "data_retrieval.error", "analysis.error"}

\* C13 as stated: for every handler failure on a message that carries a
\* correlation id, an error message with that correlation id has been
\* published on an error routing key, whichever agent's handler failed.
C13_Original_ErrorPublished ==
    \A f \in 1..Len(failures) :
       failures[f].correlation_id # NoId =>
          \E m \in 1..Len(published) :
             /\ published[m].correlation_id = failures[f].correlation_id
             /\ published[m].routing_key \in ErrorKeys

(***************************************************************************)
(* Claims about a breaker shared by concurrent callers, under SpecConc.    *)
(***************************************************************************)

\* The callers that are executing the wrapped function as probes: they
\* found the breaker HALF_OPEN after the reset check.
Probing == {c \in Callers : callers[c].pc = "running" /\ callers[c].probe = HALF_OPEN}

\* C14 as stated: while the breaker is HALF_OPEN, at most one caller is
\* executing the wrapped function as a probe.
C14_Original_OneProbe ==
    cb.state = HALF_OPEN => Cardinality(Probing) <= 1

\* C15 as stated: when the calls that overlapped have all ended, the
\* breaker's state, failure_count, success_count and last failure time are
\* what those calls, made one after the other in some order, would leave.
C15_Original_Serializable ==
    (InFlight = {} /\ batch.calls # <<>>) =>
        cb \in SeqResults(batch.start, 1..Len(batch.calls), batch.at)

(***************************************************************************)
(* Claims about the registry used from several threads, under SpecReg.     *)
(***************************************************************************)

\* C16 as stated: accesses to the correlation registry exclude one
\* another, so a clear never runs between the scan and the deletions of a
\* cleanup, and no access fails or miscounts because of another.
C16_Original_MutuallyExclusive ==
    /\ ~(regops.cleanup_pc = "deleting" /\ regops.clear_pc = "checked")
    /\ regops.raised = "none"

(***************************************************************************)
(* Claims about trace context, under SpecChain.                            *)
(***************************************************************************)

\* C17 as stated: every message published while a span is active (here:
\* by a handler running under the message-processing span, which exists when
\* tracing is available) carries a traceparent header.
C17_Original_TraceparentInjected ==
    \A f \in 1..Len(failures) :
       tracing_available =>
          \A m \in 1..Len(failures[f].sent) :
             "traceparent" \in failures[f].sent[m].headers

(***************************************************************************)
(* Claims about the connection pool, under SpecConnect and SpecPool.       *)
(***************************************************************************)

\* C18 as stated: at every moment at most one broker connection is open,
\* also when connect() and get_connection() are called concurrently.
C18_Original_AtMostOneOpen == Cardinality(OpenConns) <= 1

\* The delay the backoff rule gives after the k-th failed attempt, k from 0.
BackoffAfter(k) ==
    LET uncapped == pool.initial_retry_delay * Pow2(k) IN
    IF uncapped < pool.max_retry_delay THEN uncapped ELSE pool.max_retry_delay

\* C19: connect() makes at most max_retries attempts; the delays slept are
\* min(initial_retry_delay * 2^k, max_retry_delay) after the failed attempt
\* of index k = 0, 1, ..., one after every failed attempt but the last;
\* when the attempts are used up it raises the terminal connection error;
\* and after a failed attempt the pool is not connected.
C19_BoundedBackoffThenTerminal ==
    LET k == connecting[1] IN
    /\ k.attempts <= pool.max_retries
    /\ k.slept = [i \in 1..Len(k.slept) |-> BackoffAfter(i - 1)]
    /\ k.pc = "attempting" => Len(k.slept) = k.attempts /\ k.attempts < pool.max_retries
    /\ k.pc = "sleeping" => Len(k.slept) = k.attempts - 1 /\ k.attempts < pool.max_retries
    /\ (k.pc = "raised" /\ k.error = "amqp") =>
          /\ k.attempts = pool.max_retries
          /\ Len(k.slept) = IF pool.max_retries = 0 THEN 0 ELSE pool.max_retries - 1
    /\ (k.pc = "raised" /\ k.error = "other") => Len(k.slept) = k.attempts - 1
    /\ (k.pc \in {"sleeping", "raised"} \/ (k.pc = "attempting" /\ k.attempts > 0)) =>
          ~IsConnected

\* C19's case: every attempt failed, the cap was applied to a delay, and
\* the terminal error was raised.
C19_Witness ==
    LET k == connecting[1] IN
    /\ k.pc = "raised" /\ k.error = "amqp"
    /\ k.attempts = pool.max_retries /\ pool.max_retries >= 3
    /\ \E i \in 1..Len(k.slept) :
          /\ k.slept[i] = pool.max_retry_delay
          /\ pool.initial_retry_delay * Pow2(i - 1) > pool.max_retry_delay
    /\ ~IsConnected

\* C20 as stated: the subscriber consumes only on a connection on which it
\* declared its exchange, queue, dead-letter exchange and queue and bindings.
C20_Original_DeclaredBeforeConsuming ==
    subscriber.consuming_on # NoConn => subscriber.declared = subscriber.consuming_on

(***************************************************************************)
(* Claims about shutdown, under SpecShutdown.                              *)
(***************************************************************************)

\* C21 as stated: when the agent's shutdown path has finished, the agent
\* is not consuming and the broker connection is not open.
C21_Original_ClosedAfterShutdown ==
    msglast.op = "close" => (~consuming /\ ~IsConnected)

(***************************************************************************)
(* Claims about the timeout wrappers, under SpecTimeout.                   *)
(***************************************************************************)

\* C22 as stated: for every positive budget, a callable that does not
\* complete within the budget is cut off and the caller gets a domain error
\* whose retryable flag is true, in the synchronous and in the asynchronous
\* variant (no timeout_error being passed).
C22_Original_RetryableTimeout ==
    (tmo.pc = "done" /\ tmo.input.runs > tmo.input.timeout /\ ~tmo.input.custom) =>
        /\ tmo.outcome.kind # "result"
        /\ tmo.outcome.error.chimera
        /\ tmo.outcome.error.retryable

(***************************************************************************)
(* Claims about the delays of retry, under SpecBackoff.                    *)
(***************************************************************************)

\* The delay of the strategy without jitter after failed attempt k.
ExactDelay(config, k) ==
    CASE config.strategy = "exponential" ->
            Min(config.base_delay * Pow2(k), config.max_delay)
      [] config.strategy = "linear" ->
            Min(config.base_delay * (k + 1), config.max_delay)
      [] OTHER -> config.base_delay

\* C23 as stated: the delays retry sleeps are exactly min(base * 2^k, max)
\* for EXPONENTIAL, min(base * (k + 1), max) for LINEAR and base for
\* CONSTANT; a function failing twice and then succeeding under
\* max_attempts = 3, exponential, returns after 3 calls with delays
\* [base, 2 * base].
C23_Original_ExactDelays ==
    bk.delays = [i \in 1..Len(bk.delays) |-> ExactDelay(bk.config, i - 1)]

(***************************************************************************)
(* Claims about publish_event and publish_response, under SpecPublish.     *)
(***************************************************************************)

\* C24 as stated: publish_event and publish_response each hand exactly one
\* message to the publisher, carrying the correlation id returned or
\* supplied, and leave the correlation registry as it was.
C24_Original_OneMessageNoEntry ==
    [][ (msgvars' # msgvars /\
         msglast'.op \in {"publish_event", "publish_event_raised",
                          "publish_response", "publish_response_raised"}) =>
            /\ Len(published') = Len(published) + 1
            /\ published'[Len(published')].correlation_id = msglast'.id
            /\ msglast'.op \in {"publish_event", "publish_response"}
            /\ correlation_map' = correlation_map ]_vars

(***************************************************************************)
(* Claims about the conversation context, under SpecHistory and            *)
(* SpecExtract.                                                            *)
(***************************************************************************)

C26_Original_SlidingOnRead ==
    (session.last = "get_context" /\ session.exists) => session.ttl_left = SessionTTL

\* The keys that occur in at least two of the entries of history.
InTwoEntries(history) ==
    {key \in KeysOf(history) :
        Cardinality({i \in 1..Len(history) :
                        Occurrences(history[i].entities, key) > 0}) >= 2}

\* C27 as stated: the common entities extract_context_for_query returns
\* are exactly those that occur in at least 2 of the last 3 history entries.
C27_Original_InTwoOfLastThree ==
    (session.last = "extract_context_for_query" /\ session.exists) =>
        session.extracted.recent_entities =
            InTwoEntries(LastOf(session.query_history, RecentQueries))

\* The condition of a rule holds for a value: the operator compares the
\* value with the threshold, equality being taken within the tolerance.
ConditionHolds(condition, value) ==
    \/ condition.operator = ">" /\ value > condition.threshold
    \/ condition.operator = "<" /\ value < condition.threshold
    \/ condition.operator = ">=" /\ value >= condition.threshold
    \/ condition.operator = "<=" /\ value <= condition.threshold
    \/ condition.operator = "==" /\ Abs(value - condition.threshold) < EqualTolerance

\* On the engine before an evaluation at the time now: the rule is present
\* and enabled, its metric matches, its condition holds for the value, and
\* its cooldown has elapsed since the last alert under its identifier.
Due(engine, rule_id, metric, value) ==
    /\ rule_id \in DOMAIN engine.rules
    /\ engine.rules[rule_id].enabled
    /\ engine.rules[rule_id].condition.metric = metric
    /\ ConditionHolds(engine.rules[rule_id].condition, value)
    /\ rule_id \in DOMAIN engine.last_alert_time =>
          now - engine.last_alert_time[rule_id] >=
             engine.rules[rule_id].condition.cooldown_seconds

C29_EveryChannelAttempted ==
    notifier.pc \notin {"idle", "registered"} =>
       /\ notifier.pc = "returned"
       /\ Len(notifier.log) = Len(notifier.requested)
       /\ \A k \in 1..Len(notifier.requested) :
             /\ notifier.log[k].channel_id = notifier.requested[k]
             /\ notifier.requested[k] \in DOMAIN notifier.channels =>
                   notifier.log[k].result \in SendResults(notifier.channels[notifier.requested[k]])
             /\ notifier.requested[k] \notin DOMAIN notifier.channels =>
                   notifier.log[k].result = "not_found"

\* An alert was sent to three channels: delivery on the first raised, the
\* second is not registered, and delivery on the third was made.
C29_Witness ==
    /\ notifier.pc = "returned"
    /\ Len(notifier.requested) = 3
    /\ notifier.log[1].result = "raised"
    /\ notifier.log[2].result \in {"not_found", "unknown_type"}
    /\ notifier.log[3].result \in {"posted", "logged"}

\* The rule is what the store holds under its identifier.
HoldsRule(store, rule) == rule.id \in DOMAIN store /\ store[rule.id] = rule

\* C30: after a rule-configuration message has been handled, the alert
\* engine and the persisted rule store agree on its rule: both hold the new
\* rule or neither does, also when persisting failed.
C30_Original_EngineAndStoreAgree ==
    (rule_config.pc = "handled" /\ rule_config.rule # NoRule) =>
       (HoldsRule(alert_engine.rules, rule_config.rule)
          <=> HoldsRule(redis_rules, rule_config.rule))

\* C31: every record emitted while a correlation id is ambient carries that
\* id in its JSON object and never another one, and an id set while one
\* message was handled is not in the records of a later handler.
C31_Original_OnlyTheAmbientId ==
    logging.emitted # NoRecord =>
       /\ logging.emitted.ambient # NoId =>
             logging.emitted.json = logging.emitted.ambient
       /\ logging.emitted.json # NoId =>
             logging.emitted.set_in = logging.emitted.handler

\* C32: a manual reset() takes the breaker to CLOSED with failure_count = 0
\* from any state, and the call that follows it invokes the wrapped
\* function however recently the breaker opened.
C32_ResetForcesClosed ==
    [][ /\ cblast'.op = "reset" =>
              /\ cb'.state = CLOSED
              /\ cb'.failure_count = 0
        /\ (cblast.op = "reset" /\ cblast'.op = "call") => cblast'.invoked ]_vars

\* A call invoked the wrapped function at the very time the breaker had
\* opened, with a recovery timeout still to run: a reset came in between.
C32_Witness ==
    /\ cblast.op = "call"
    /\ cblast.invoked
    /\ cblast.opened.reset
    /\ cblast.opened.t = cblast.at
    /\ cbcfg.recovery_timeout > 0

C37_StateInvariants ==
    /\ cb.state = CLOSED => cb.failure_count < cbcfg.failure_threshold
    /\ cb.state = OPEN => cb.last_failure_time # NoTime
    /\ cb.state = HALF_OPEN => cb.success_count < 2

\* The breaker is HALF_OPEN after one successful probe, its failure count
\* still at the threshold.
C37_Witness ==
    /\ cb.state = HALF_OPEN
    /\ cb.success_count = 1
    /\ cb.failure_count >= cbcfg.failure_threshold

\* The deliveries in the order their handler work completed are in
\* delivery order.
InDeliveryOrder(finished) ==
    \A i, j \in 1..Len(finished) : i < j => finished[i] < finished[j]

C34_Original_LastWriteWellFormed ==
    kv.stored.exists =>
       /\ kv.stored = kv.saved
       /\ kv.stored.has_history
       /\ Len(kv.stored.query_history) <= HistoryLimit

\* The context an operation saves when it starts from nothing.
FromEmpty(op) ==
    IF op.op = "update_context"
    THEN [exists |-> TRUE, fields |-> {op.field}, has_history |-> FALSE, query_history |-> <<>>]
    ELSE [exists |-> TRUE, fields |-> {}, has_history |-> TRUE, query_history |-> <<op.arg>>]

\* C40: when the read inside update_context or add_query_to_history fails,
\* the operation goes on from an empty context, and when its write then
\* succeeds the stored session is overwritten: what is stored is what the
\* operation made from nothing, the history and fields stored before are
\* lost.
C40_FailedReadOverwrites ==
    (kv.last.read_failed /\ kv.last.outcome = "true") =>
       kv.stored = FromEmpty(kv.last)

\* An operation whose read failed has overwritten a session that held
\* queries and a field.
C40_Witness ==
    /\ kv.last.read_failed
    /\ kv.last.outcome = "true"
    /\ kv.last.before.exists
    /\ Len(kv.last.before.query_history) >= 2
    /\ kv.last.before.fields # {}
    /\ kv.stored.fields \cup {kv.last.field} # kv.last.before.fields \cup {kv.last.field}

\* The ids whose entry was stored by a publish_request that raised: no
\* caller was given them.
Unreturned == DOMAIN correlation_map \ DOMAIN issued

\* C35: publish_request stores the entry before it publishes: when the
\* publish raises the caller gets the exception and no correlation id, and
\* the entry of the generated id is in the registry, where it stays until
\* cleanup_old_correlations reaps it or close() clears the registry.
C35_EntryOutlivesFailedPublish ==
    [][ /\ msglast'.op = "publish_request_raised" =>
              /\ msglast'.returned = NoId
              /\ msglast'.id \in DOMAIN correlation_map'
              /\ msglast'.id \notin DOMAIN issued'
        /\ \A c \in Unreturned :
              c \notin DOMAIN correlation_map' =>
                 msglast'.op \in {"cleanup_old_correlations", "close"} ]_vars

\* The entry of a request whose publish raised is still in the registry a
\* second later, after a caller cleared a correlation of its own.
C35_Witness ==
    /\ msglast.op = "clear_correlation"
    /\ \E c \in Unreturned : correlation_map[c].timestamp < GetTimestamp

LoggingAgents == {"narrative", "fact_checker", "follow_up", "monitoring"}

\* The delivery was settled with basic_ack and with nothing else.
AckedOnly(tag) ==
    /\ \E i \in 1..Len(channel_log) :
          channel_log[i].op = "ack" /\ channel_log[i].delivery_tag = tag
    /\ \A i \in 1..Len(channel_log) :
          channel_log[i].delivery_tag = tag => channel_log[i].op = "ack"

\* C39: in the narrative, fact-checker, follow-up and monitoring agents
\* an exception raised while a message is processed is caught inside the
\* handler: every invocation of route_message for the delivery returns
\* normally and the delivery is acked; it is never nacked, so it does not
\* reach the dead-letter queue.
C39_FailureIsAcked ==
    \A i \in 1..Len(failures) :
       failures[i].agent \in LoggingAgents =>
          /\ ~failures[i].raised
          /\ AckedOnly(failures[i].delivery_tag)
          /\ \A j \in 1..Len(handled_messages) :
                handled_messages[j].delivery_tag = failures[i].delivery_tag =>
                   handled_messages[j].ok

\* The handler of the narrative agent failed on a delivery that was acked,
\* and the handler of the analysis agent on one that was nacked.
C39_Witness ==
    /\ \E i \in 1..Len(failures) :
          /\ failures[i].agent = "narrative"
          /\ AckedOnly(failures[i].delivery_tag)
    /\ \E i \in 1..Len(failures) :
          /\ failures[i].agent = "analysis"
          /\ ~AckedOnly(failures[i].delivery_tag)

====
